---- MODULE Spec2Model ----
(***************************************************************************)
(* Model of the error-normalization and reporting pipeline of lantern's    *)
(* package errors (ErrorCollector.Log, parseError, the With* decorators,   *)
(* ReportTo and the global currentReporter).                               *)
(*                                                                         *)
(* Go strings are TLA+ strings, "+" is \o.  A Go error value is a record   *)
(* whose field type is the name reflect.TypeOf(err).String() prints; the   *)
(* nil error is NilErr.  A panic is the field panicked of a result.        *)
(***************************************************************************)
EXTENDS Integers, Sequences, FiniteSets, TLC

(***************************************************************************)
(* Bounds of the model.                                                    *)
(***************************************************************************)
NumThreads == 2
NumReporters == 1
MaxCalls == 2
MaxWith == 2

(***************************************************************************)
(* Error values.                                                           *)
(***************************************************************************)
NilErr == [type |-> "nil"]
NoAddr == "<nil-addr>"

OpConsts == {"dial", "read", "write", "close"}

\* errors.New values: compared by identity (id), printed by msg.
Sentinel(id, msg) == [type |-> "*errors.errorString", id |-> id, msg |-> msg]
\* A type of the application that parseError does not know.
Custom(typ, msg, hashable) == [type |-> typ, msg |-> msg, hashable |-> hashable]

OpError(op, network, source, addr, err) ==
    [type |-> "*net.OpError", Op |-> op, Net |-> network, Source |-> source,
     Addr |-> addr, Err |-> err]
AddrError(err, addr) == [type |-> "*net.AddrError", Err |-> err, Addr |-> addr]
DNSError(err, name, server) ==
    [type |-> "*net.DNSError", Err |-> err, Name |-> name, Server |-> server]
NetParseError(typ, text) == [type |-> "*net.ParseError", Type |-> typ, Text |-> text]
StringErr(typ, s) == [type |-> typ, s |-> s]
Errno(msg) == [type |-> "syscall.Errno", msg |-> msg]
URLError(op, url, err) == [type |-> "*url.Error", Op |-> op, URL |-> url, Err |-> err]
MsgErr(typ, msg) == [type |-> typ, msg |-> msg]
ProtocolError(id, s) == [type |-> "*http.ProtocolError", id |-> id, ErrorString |-> s]
RecordHeaderError(msg, hdr) ==
    [type |-> "tls.RecordHeaderError", Msg |-> msg, RecordHeader |-> hdr]
HostnameError(host, msg) == [type |-> "x509.HostnameError", Host |-> host, msg |-> msg]
LinkError(op, old, new, err) ==
    [type |-> "*os.LinkError", Op |-> op, Old |-> old, New |-> new, Err |-> err]
PathError(op, path, err) == [type |-> "*os.PathError", Op |-> op, Path |-> path, Err |-> err]
SyscallError(call, err) == [type |-> "*os.SyscallError", Syscall |-> call, Err |-> err]
ExecError(name, err) == [type |-> "*exec.Error", Name |-> name, Err |-> err]
ExitError(msg, stderr) == [type |-> "*exec.ExitError", msg |-> msg, Stderr |-> stderr]
NumError(func, num, err) == [type |-> "*strconv.NumError", Func |-> func, Num |-> num, Err |-> err]
MarshalerError(typ, err) == [type |-> "*json.MarshalerError", Type |-> typ, Err |-> err]
TimeParseError(message, msg) == [type |-> "*time.ParseError", Message |-> message, msg |-> msg]


(***************************************************************************)
(* The method sets the two interface tests of parseError look at, and the  *)
(* Error() method of every error type.                                     *)
(***************************************************************************)
NetErrorTypes ==
    {"*net.OpError", "*net.AddrError", "*net.DNSError", "net.InvalidAddrError",
     "*net.InvalidAddrError", "*net.ParseError", "net.UnknownNetworkError",
     "syscall.Errno", "*url.Error", "*net.DNSConfigError", "*app.timeoutError"}
RuntimeErrorTypes == {"*runtime.TypeAssertionError", "runtime.errorString"}

\* err.(net.Error): false for the nil interface.
IsNetError(err) == err # NilErr /\ err.type \in NetErrorTypes
\* err.(runtime.Error)
IsRuntimeError(err) == err # NilErr /\ err.type \in RuntimeErrorTypes

WrapperTypes ==
    {"*net.OpError", "*url.Error", "*os.LinkError", "*os.PathError",
     "*os.SyscallError", "*exec.Error", "*strconv.NumError", "*json.MarshalerError"}

\* Whether err.Error() panics: a method call on the nil interface, or a
\* wrapper whose Error() calls Err.Error() on a nil Err.
RECURSIVE ErrorPanics(_)
ErrorPanics(err) ==
    IF err = NilErr THEN TRUE
    ELSE IF err.type \in WrapperTypes THEN ErrorPanics(err.Err)
    ELSE FALSE

\* err.Error(), defined where ~ErrorPanics(err).
RECURSIVE ErrorOf(_)
ErrorOf(err) ==
    CASE err.type = "*net.OpError" ->
            err.Op
            \o (IF err.Net # "" THEN " " \o err.Net ELSE "")
            \o (IF err.Source # NoAddr THEN " " \o err.Source ELSE "")
            \o (IF err.Addr # NoAddr
                  THEN (IF err.Source # NoAddr THEN "->" ELSE " ") \o err.Addr
                  ELSE "")
            \o ": " \o ErrorOf(err.Err)
      [] err.type = "*net.AddrError" ->
            IF err.Addr # "" THEN "address " \o err.Addr \o ": " \o err.Err ELSE err.Err
      [] err.type = "*net.DNSError" ->
            "lookup " \o err.Name
            \o (IF err.Server # "" THEN " on " \o err.Server ELSE "")
            \o ": " \o err.Err
      [] err.type = "*net.ParseError" -> "invalid " \o err.Type \o ": " \o err.Text
      [] err.type \in {"net.InvalidAddrError", "*net.InvalidAddrError",
                       "textproto.ProtocolError", "*textproto.ProtocolError"} -> err.s
      [] err.type = "net.UnknownNetworkError" -> "unknown network " \o err.s
      [] err.type \in {"url.EscapeError", "*url.EscapeError"} ->
            "invalid URL escape " \o err.s
      [] err.type \in {"url.InvalidHostError", "*url.InvalidHostError"} ->
            "invalid character " \o err.s \o " in host name"
      [] err.type = "*url.Error" -> err.Op \o " " \o err.URL \o ": " \o ErrorOf(err.Err)
      [] err.type = "*http.ProtocolError" -> err.ErrorString
      [] err.type = "tls.RecordHeaderError" -> "tls: " \o err.Msg
      [] err.type = "*os.LinkError" ->
            err.Op \o " " \o err.Old \o " " \o err.New \o ": " \o ErrorOf(err.Err)
      [] err.type = "*os.PathError" -> err.Op \o " " \o err.Path \o ": " \o ErrorOf(err.Err)
      [] err.type = "*os.SyscallError" -> err.Syscall \o ": " \o ErrorOf(err.Err)
      [] err.type = "*exec.Error" -> "exec: " \o err.Name \o ": " \o ErrorOf(err.Err)
      [] err.type = "*strconv.NumError" ->
            "strconv." \o err.Func \o ": parsing " \o err.Num \o ": " \o ErrorOf(err.Err)
      [] err.type = "*json.MarshalerError" ->
            "json: error calling MarshalJSON for type " \o err.Type \o ": " \o ErrorOf(err.Err)
      [] OTHER -> err.msg

\* Whether the dynamic type of err can be a map key (miscErrors[err]).
Hashable(err) == IF "hashable" \in DOMAIN err THEN err.hashable ELSE TRUE

(***************************************************************************)
(* encoding/hex.EncodeToString on a sequence of bytes.                     *)
(***************************************************************************)
HexDigits == <<"0", "1", "2", "3", "4", "5", "6", "7", "8", "9",
               "a", "b", "c", "d", "e", "f">>
RECURSIVE EncodeToString(_)
EncodeToString(bytes) ==
    IF bytes = <<>> THEN ""
    ELSE HexDigits[(Head(bytes) \div 16) + 1] \o HexDigits[(Head(bytes) % 16) + 1]
         \o EncodeToString(Tail(bytes))

(***************************************************************************)
(* The two identity-keyed tables.                                          *)
(***************************************************************************)
httpProtocolErrorKeys ==
    {"http.ErrHeaderTooLong", "http.ErrShortBody", "http.ErrNotSupported",
     "http.ErrUnexpectedTrailer", "http.ErrMissingContentLength",
     "http.ErrNotMultipart", "http.ErrMissingBoundary"}

miscErrorKeys ==
    {"bufio.ErrInvalidUnreadByte", "bufio.ErrInvalidUnreadRune", "bufio.ErrBufferFull",
     "bufio.ErrNegativeCount", "bufio.ErrTooLong", "bufio.ErrNegativeAdvance",
     "bufio.ErrAdvanceTooFar", "bufio.ErrFinalToken",
     "http.ErrWriteAfterFlush", "http.ErrBodyNotAllowed", "http.ErrHijacked",
     "http.ErrContentLength", "http.ErrBodyReadAfterClose", "http.ErrHandlerTimeout",
     "http.ErrLineTooLong", "http.ErrMissingFile", "http.ErrNoCookie",
     "http.ErrNoLocation", "http.ErrSkipAltProtocol",
     "io.EOF", "io.ErrClosedPipe", "io.ErrNoProgress", "io.ErrShortBuffer",
     "io.ErrShortWrite", "io.ErrUnexpectedEOF",
     "os.ErrInvalid", "os.ErrPermission", "os.ErrExist", "os.ErrNotExist",
     "exec.ErrNotFound",
     "x509.ErrUnsupportedAlgorithm", "x509.IncorrectPasswordError",
     "hex.ErrLength"}

\* The table key of an error value: its identity when it is one of the
\* package-level variables, "" for any other value.
Identity(err) == IF "id" \in DOMAIN err THEN err.id ELSE ""

\* Each entry maps the variable to its own qualified name.
httpProtocolErrors == [k \in httpProtocolErrorKeys |-> k]
miscErrors == [k \in miscErrorKeys |-> k]

(***************************************************************************)
(* parseError.                                                             *)
(***************************************************************************)
EmptyMap == [k \in {} |-> ""]
Put(m, k, v) == [x \in (DOMAIN m) \cup {k} |-> IF x = k THEN v ELSE m[x]]

Parsed(op, goType, desc, extra) ==
    [op |-> op, goType |-> goType, desc |-> desc, extra |-> extra, panicked |-> FALSE]
Panic == [op |-> "", goType |-> "", desc |-> "", extra |-> EmptyMap, panicked |-> TRUE]

\* desc = x.Error() for a value x that may be nil or wrap a nil error.
WithErrorOf(op, goType, x, extra) ==
    IF ErrorPanics(x) THEN Panic ELSE Parsed(op, goType, ErrorOf(x), extra)

\* reflect.TypeOf(err).String(): reflect.TypeOf(nil) is the nil Type, and
\* calling String on it panics.
TypeName(err) == err.type

\* UnwrapOp without `op = opError.Op`.
UnwrapOpWithoutOp(err) ==
    IF err.type = "*net.OpError"
      THEN LET e1 == IF err.Source # NoAddr
                       THEN Put(EmptyMap, "localAddr", err.Source) ELSE EmptyMap
               e2 == IF err.Addr # NoAddr THEN Put(e1, "remoteAddr", err.Addr) ELSE e1
           IN  [op |-> "", extra |-> Put(e2, "network", err.Net), err |-> err.Err]
      ELSE [op |-> "", extra |-> EmptyMap, err |-> err]

\* UnwrapOp without the nil checks of Source and Addr.
UnwrapOpAlwaysAddrs(err) ==
    IF err.type = "*net.OpError"
      THEN LET e1 == Put(EmptyMap, "localAddr", err.Source)
               e2 == Put(e1, "remoteAddr", err.Addr)
           IN  [op |-> err.Op, extra |-> Put(e2, "network", err.Net), err |-> err.Err]
      ELSE [op |-> "", extra |-> EmptyMap, err |-> err]

\* The unwrapping of an enclosing *net.OpError.
UnwrapOp(err) ==
    IF err.type = "*net.OpError"
      THEN LET e1 == IF err.Source # NoAddr
                       THEN Put(EmptyMap, "localAddr", err.Source) ELSE EmptyMap
               e2 == IF err.Addr # NoAddr THEN Put(e1, "remoteAddr", err.Addr) ELSE e1
           IN  [op |-> err.Op, extra |-> Put(e2, "network", err.Net), err |-> err.Err]
      ELSE [op |-> "", extra |-> EmptyMap, err |-> err]

\* The branch taken when err is a net.Error.
ParseNetError(err0) ==
    LET u == UnwrapOp(err0)
        op == u.op
        extra == u.extra
        err == u.err
    IN  CASE err.type = "*net.AddrError" ->
                    Parsed(op, "net.AddrError", err.Err, Put(extra, "addr", err.Addr))
               [] err.type = "*net.DNSError" ->
                    Parsed(op, "net.DNSError", err.Err,
                           IF err.Server # ""
                             THEN Put(Put(extra, "domain", err.Name), "dnsServer", err.Server)
                             ELSE Put(extra, "domain", err.Name))
               [] err.type = "*net.InvalidAddrError" ->
                    Parsed(op, "net.InvalidAddrError", ErrorOf(err), extra)
               [] err.type = "*net.ParseError" ->
                    Parsed(op, "net.ParseError", "invalid " \o err.Type,
                           Put(extra, "textToParse", err.Text))
               [] err.type = "net.UnknownNetworkError" ->
                    Parsed(op, "net.UnknownNetworkError", "unknown network", extra)
               [] err.type = "syscall.Errno" ->
                    Parsed(op, "syscall.Errno", ErrorOf(err), extra)
               [] err.type = "*url.Error" ->
                    IF ErrorPanics(err.Err) THEN Panic
                    ELSE Parsed(err.Op, "url.Error", ErrorOf(err.Err), extra)
               [] OTHER -> WithErrorOf(op, TypeName(err), err, extra)

\* The branch taken when err is a runtime.Error.
ParseRuntimeError(err) ==
    IF err.type = "*runtime.TypeAssertionError"
      THEN Parsed("", "runtime.TypeAssertionError", ErrorOf(err), EmptyMap)
      ELSE Parsed("", TypeName(err), ErrorOf(err), EmptyMap)

\* ParseDefault without the lookup in miscErrors.
ParseDefaultTypeNameOnly(err) ==
    IF ErrorPanics(err) \/ ~Hashable(err) THEN Panic
    ELSE Parsed("", TypeName(err), ErrorOf(err), EmptyMap)

\* The default branch of the type switch: the sentinel table, else the
\* dynamic type name.
ParseDefault(err) ==
    IF ErrorPanics(err) \/ ~Hashable(err) THEN Panic
    ELSE IF Identity(err) \in DOMAIN miscErrors
      THEN Parsed("", miscErrors[Identity(err)], ErrorOf(err), EmptyMap)
      ELSE Parsed("", TypeName(err), ErrorOf(err), EmptyMap)

\* Types of the switch whose case is `goType = <name>; desc = actual.Error()`.
ErrorDescKinds ==
    ("*textproto.Error" :> "textproto.Error")
    @@ ("x509.CertificateInvalidError" :> "x509.CertificateInvalidError")
    @@ ("x509.ConstraintViolationError" :> "x509.ConstraintViolationError")
    @@ ("x509.InsecureAlgorithmError" :> "x509.InsecureAlgorithmError")
    @@ ("x509.SystemRootsError" :> "x509.SystemRootsError")
    @@ ("x509.UnhandledCriticalExtension" :> "x509.UnhandledCriticalExtension")
    @@ ("x509.UnknownAuthorityError" :> "x509.UnknownAuthorityError")
    @@ ("*json.InvalidUnmarshalError" :> "json.InvalidUnmarshalError")
    @@ ("*json.MarshalerError" :> "json.MarshalerError")
    @@ ("*json.SyntaxError" :> "json.SyntaxError")
    @@ ("*json.UnmarshalFieldError" :> "json.UnmarshalFieldError")
    @@ ("*json.UnmarshalTypeError" :> "json.UnmarshalTypeError")
    @@ ("*json.UnsupportedTypeError" :> "json.UnsupportedTypeError")
    @@ ("*json.UnsupportedValueError" :> "json.UnsupportedValueError")

\* The type switch over the struct shapes.
ParseStruct(err) ==
    CASE err.type = "*http.ProtocolError" ->
                Parsed("",
                       IF Identity(err) \in DOMAIN httpProtocolErrors
                         THEN httpProtocolErrors[Identity(err)]
                         ELSE "http.ProtocolError",
                       err.ErrorString, EmptyMap)
           [] err.type \in {"url.EscapeError", "*url.EscapeError"} ->
                Parsed("", "url.EscapeError", "invalid URL escape", EmptyMap)
           [] err.type \in {"url.InvalidHostError", "*url.InvalidHostError"} ->
                Parsed("", "url.InvalidHostError", "invalid character in host name", EmptyMap)
           [] err.type \in {"textproto.ProtocolError", "*textproto.ProtocolError"} ->
                Parsed("", "textproto.ProtocolError", ErrorOf(err), EmptyMap)
           [] err.type = "tls.RecordHeaderError" ->
                Parsed("", "tls.RecordHeaderError", err.Msg,
                       Put(EmptyMap, "header", EncodeToString(err.RecordHeader)))
           [] err.type = "x509.HostnameError" ->
                Parsed("", "x509.HostnameError", ErrorOf(err), Put(EmptyMap, "host", err.Host))
           [] err.type = "hex.InvalidByteError" ->
                Parsed("", "hex.InvalidByteError", "invalid byte", EmptyMap)
           [] err.type = "*json.InvalidUTF8Error" ->
                Parsed("", "json.InvalidUTF8Error", "invalid UTF-8 in string", EmptyMap)
           [] err.type \in DOMAIN ErrorDescKinds ->
                WithErrorOf("", ErrorDescKinds[err.type], err, EmptyMap)
           [] err.type = "*os.LinkError" ->
                WithErrorOf("", "textproto.ProtocolError", err, EmptyMap)
           [] err.type = "*os.PathError" ->
                WithErrorOf(err.Op, "os.PathError", err.Err, EmptyMap)
           [] err.type = "*os.SyscallError" ->
                WithErrorOf(err.Syscall, "os.SyscallError", err.Err, EmptyMap)
           [] err.type = "*exec.Error" ->
                WithErrorOf("", "exec.Error", err.Err, EmptyMap)
           [] err.type = "*exec.ExitError" ->
                Parsed("", "exec.ExitError", ErrorOf(err), Put(EmptyMap, "stderr", err.Stderr))
           [] err.type = "*strconv.NumError" ->
                WithErrorOf("", "strconv.NumError", err.Err, Put(EmptyMap, "function", err.Func))
           [] err.type = "*time.ParseError" ->
                Parsed("", "time.ParseError", err.Message, EmptyMap)
           [] OTHER -> ParseDefault(err)

\* parseError without the net.Error branch.
parseErrorSkipNet(err) ==
    IF IsRuntimeError(err) THEN ParseRuntimeError(err)
    ELSE ParseStruct(err)

parseError(err) ==
    IF IsNetError(err) THEN ParseNetError(err)
    ELSE IF IsRuntimeError(err) THEN ParseRuntimeError(err)
    ELSE ParseStruct(err)

(***************************************************************************)
(* The error values the callers pass to Log.                               *)
(***************************************************************************)
EOF == Sentinel("io.EOF", "EOF")
ENOENT == Errno("no such file or directory")
EmptyMsgErr == Custom("*app.MyError", "", TRUE)

\* Inner errors of the wrapper types, the nil error included.
Inners == {NilErr, EOF, ENOENT, EmptyMsgErr}

LeafNetErrors ==
    {AddrError("missing port in address", "example.com"), AddrError("", "example.com"),
     DNSError("no such host", "example.com", ""),
     DNSError("no such host", "example.com", "8.8.8.8:53"),
     StringErr("*net.InvalidAddrError", "invalid address"),
     StringErr("net.InvalidAddrError", "invalid address"),
     NetParseError("IP address", "1.2.3"),
     StringErr("net.UnknownNetworkError", "tcp7"),
     Errno("connection refused"),
     MsgErr("*net.DNSConfigError", "error reading DNS config"),
     Custom("*app.timeoutError", "i/o timeout", TRUE)}

\* S as one enumerated set: a union is otherwise kept as its two operands and
\* enumerated anew wherever it is used.
Enumerated(S) == {x \in S : TRUE}

URLErrors ==
    Enumerated(
        {URLError("Get", "http://example.com/", e) : e \in Inners}
        \cup {URLError("Get", "http://example.com/",
                       OpError("dial", "tcp", NoAddr, "1.2.3.4:80",
                               DNSError("no such host", "example.com", "")))})

OpErrorInners ==
    Enumerated(
        Inners \cup
        {DNSError("no such host", "example.com", ""),
         AddrError("", "example.com"),
         URLError("Get", "http://example.com/", EOF),
         PathError("open", "/nonexistent", ENOENT)})

OpErrors ==
    Enumerated(
        {OpError("dial", "tcp", NoAddr, "1.2.3.4:80", e) : e \in OpErrorInners}
        \cup {OpError("read", "tcp", "10.0.0.1:5000", "1.2.3.4:80", e) : e \in OpErrorInners}
        \cup {OpError("accept", "tcp", NoAddr, NoAddr, e) : e \in OpErrorInners})

RuntimeErrors ==
    {MsgErr("*runtime.TypeAssertionError", "interface conversion: interface is nil"),
     MsgErr("runtime.errorString", "index out of range")}

SentinelErrors ==
    {EOF, Sentinel("io.ErrClosedPipe", "io: read/write on closed pipe"),
     Sentinel("os.ErrPermission", "permission denied"),
     Sentinel("os.ErrNotExist", "file does not exist"),
     Sentinel("", "EOF")}

CustomErrors ==
    {Custom("*app.MyError", "boom", TRUE), EmptyMsgErr,
     Custom("app.MultiError", "2 errors", FALSE)}

StructErrors ==
    Enumerated(
        {ProtocolError("http.ErrShortBody", "entity body too short"),
         ProtocolError("", "unexpected protocol state"),
         ProtocolError("", ""),
         StringErr("url.EscapeError", "%zz"), StringErr("*url.EscapeError", "%zz"),
         StringErr("url.InvalidHostError", "<"), StringErr("*url.InvalidHostError", "<"),
         MsgErr("*textproto.Error", "550 mailbox unavailable"),
         StringErr("textproto.ProtocolError", "short response"),
         StringErr("*textproto.ProtocolError", "short response"),
         RecordHeaderError("first record does not look like a TLS handshake",
                           <<71, 69, 84, 32, 47>>),
         RecordHeaderError("", <<22, 3, 1, 255, 0>>),
         MsgErr("x509.CertificateInvalidError", "x509: certificate has expired"),
         MsgErr("x509.ConstraintViolationError", "x509: invalid constraints"),
         HostnameError("example.com", "x509: certificate is valid for a.b, not example.com"),
         MsgErr("x509.InsecureAlgorithmError", "x509: insecure algorithm"),
         MsgErr("x509.SystemRootsError", "x509: failed to load system roots"),
         MsgErr("x509.UnhandledCriticalExtension", "x509: unhandled critical extension"),
         MsgErr("x509.UnknownAuthorityError", "x509: certificate signed by unknown authority"),
         MsgErr("hex.InvalidByteError", "encoding/hex: invalid byte: U+007A 'z'"),
         MsgErr("*json.InvalidUTF8Error", "json: invalid UTF-8 in string"),
         MsgErr("*json.InvalidUnmarshalError", "json: Unmarshal(nil)"),
         MarshalerError("app.T", EOF), MarshalerError("app.T", NilErr),
         MsgErr("*json.SyntaxError", "unexpected end of JSON input"),
         MsgErr("*json.UnmarshalFieldError", "json: cannot unmarshal into unexported field"),
         MsgErr("*json.UnmarshalTypeError", "json: cannot unmarshal string into int"),
         MsgErr("*json.UnsupportedTypeError", "json: unsupported type: chan int"),
         MsgErr("*json.UnsupportedValueError", "json: unsupported value: NaN"),
         LinkError("rename", "a", "b", ENOENT), LinkError("rename", "a", "b", NilErr),
         ExitError("exit status 1", "ls: no such file"),
         TimeParseError("", "parsing time 2016: cannot parse"),
         TimeParseError(": day out of range", "parsing time 2016-02-31: day out of range")}
        \cup {PathError("open", "/nonexistent", e) : e \in Inners}
        \cup {SyscallError("connect", e) : e \in {Errno("connection refused"), NilErr}}
        \cup {ExecError("ls", e) : e \in {Sentinel("exec.ErrNotFound", "executable file not found in $PATH"), NilErr}}
        \cup {NumError("ParseInt", "x", e) : e \in {Sentinel("", "invalid syntax"), NilErr}})

Errors ==
    Enumerated(
        {NilErr} \cup LeafNetErrors \cup URLErrors \cup OpErrors \cup RuntimeErrors
        \cup SentinelErrors \cup CustomErrors \cup StructErrors)

(***************************************************************************)
(* The Error record, the decorators and the collector.                     *)
(*                                                                         *)
(* The four embedded pointers of Error are addresses: NilPtr (or 0 for a   *)
(* *UserLocale) is the nil pointer.  *ProxyingInfo and *UserAgentInfo      *)
(* values belong to the caller and live in proxyHeap / uaHeap; WithLocale  *)
(* allocates a new UserLocale in localeHeap; a collector's systemInfo      *)
(* lives in sysHeap.                                                       *)
(***************************************************************************)
NilPtr == "nil"
ProxyPtrs == {"p1"}
UAPtrs == {"u1"}
ProxyVals ==
    {[ProxyType |-> "chained", ProxyAddr |-> "1.2.3.4:443"],
     [ProxyType |-> "fronted", ProxyAddr |-> "5.6.7.8:443"]}
UAVals == {[UserAgent |-> "Mozilla/5.0"], [UserAgent |-> "curl/7.43"]}
\* What the locale probe (jibber_jabber, time.Now) answers; the language and
\* the territory are "" when detection fails.
LocaleVals ==
    {[TimeZone |-> "UTC", Language |-> "en", Country |-> "US"],
     [TimeZone |-> "CST", Language |-> "", Country |-> ""]}
PackageNames == {"flashlight.config", "flashlight.analytics"}
\* What osversion.GetHumanReadable answers; "" when it fails.
OSVersions == {"", "OS X 10.11.3"}

WithOp(op) == [f |-> "WithOp", arg |-> op]
WithProxy(info) == [f |-> "WithProxy", arg |-> info]
WithLocale == [f |-> "WithLocale", arg |-> ""]
WithUserAgent(info) == [f |-> "WithUserAgent", arg |-> info]

\* The closure a decorator returns, applied to e; loc is what the locale
\* probe answers at that moment and heap the UserLocale values allocated
\* so far.  The result is the changed record and heap.
ApplyWith(d, e, loc, heap) ==
    CASE d.f = "WithOp" -> [e |-> [e EXCEPT !.Op = d.arg], heap |-> heap]
      [] d.f = "WithProxy" -> [e |-> [e EXCEPT !.ProxyingInfo = d.arg], heap |-> heap]
      [] d.f = "WithLocale" ->
            [e |-> [e EXCEPT !.UserLocale = Len(heap) + 1], heap |-> Append(heap, loc)]
      [] d.f = "WithUserAgent" -> [e |-> [e EXCEPT !.UserAgentInfo = d.arg], heap |-> heap]

\* ApplyAll with the loop running from the last decorator to the first.
RECURSIVE ApplyAllReversed(_, _, _, _)
ApplyAllReversed(with, probes, e, heap) ==
    IF with = <<>> THEN [e |-> e, heap |-> heap]
    ELSE LET r == ApplyAllReversed(Tail(with), Tail(probes), e, heap)
         IN  ApplyWith(Head(with), r.e, Head(probes), r.heap)

\* for _, f := range with { f(actual) }
RECURSIVE ApplyAll(_, _, _, _)
ApplyAll(with, probes, e, heap) ==
    IF with = <<>> THEN [e |-> e, heap |-> heap]
    ELSE LET r == ApplyWith(Head(with), e, Head(probes), heap)
         IN  ApplyAll(Tail(with), Tail(probes), r.e, r.heap)

\* NewError with the systemInfo field left out of the literal.
NewErrorWithoutSystemInfo(c, parsed) ==
    [GoPackage |-> c.goPackage, GoType |-> parsed.goType, Desc |-> parsed.desc,
     Op |-> parsed.op, Extra |-> parsed.extra, systemInfo |-> "nil",
     ProxyingInfo |-> "nil", UserLocale |-> 0, UserAgentInfo |-> "nil"]

\* NewError without `GoPackage: c.goPackage`.
NewErrorWithoutGoPackage(c, parsed) ==
    [GoPackage |-> "", GoType |-> parsed.goType, Desc |-> parsed.desc,
     Op |-> parsed.op, Extra |-> parsed.extra, systemInfo |-> c.systemInfo,
     ProxyingInfo |-> NilPtr, UserLocale |-> 0, UserAgentInfo |-> NilPtr]

\* actual := &Error{...} of Log.
NewError(c, parsed) ==
    [GoPackage |-> c.goPackage, GoType |-> parsed.goType, Desc |-> parsed.desc,
     Op |-> parsed.op, Extra |-> parsed.extra, systemInfo |-> c.systemInfo,
     ProxyingInfo |-> NilPtr, UserLocale |-> 0, UserAgentInfo |-> NilPtr]

NoError == [GoPackage |-> "", GoType |-> "", Desc |-> "", Op |-> "", Extra |-> EmptyMap,
            systemInfo |-> NilPtr, ProxyingInfo |-> NilPtr, UserLocale |-> 0,
            UserAgentInfo |-> NilPtr]

(***************************************************************************)
(* Reporters.  A Reporter is an interface value of two words, the type     *)
(* word and the data word; currentReporter is a plain package variable.    *)
(***************************************************************************)
StdReporter == "StdReporter"
CustomReporters == {"reporter" \o ToString(i) : i \in 1..NumReporters}
Reporters == Enumerated({StdReporter} \cup CustomReporters)
Iface(r) == [tab |-> r, data |-> r]

Threads == 1..NumThreads

\* The decorator lists and the error values the callers use.
WithOps == {"dial", "fetch-cloud-config"}
Decorators ==
    Enumerated(
        {WithOp(op) : op \in WithOps}
        \cup {WithProxy(p) : p \in ProxyPtrs \cup {NilPtr}}
        \cup {WithLocale}
        \cup {WithUserAgent(u) : u \in UAPtrs})
SeqsUpTo(S, n) == UNION {[1..k -> S] : k \in 0..n}
Withs == Enumerated(SeqsUpTo(Decorators, MaxWith))

VARIABLES
    collectors,       \* the ErrorCollectors made so far, by package name
    sysHeap,          \* the systemInfo each collector points to
    proxyHeap,        \* the callers' ProxyingInfo values
    uaHeap,           \* the callers' UserAgentInfo values
    localeHeap,       \* the UserLocale values WithLocale allocated
    currentReporter,  \* the package variable: the last value stored
    visible,          \* per thread, the stored values a load may observe
    pc,               \* per thread, where it is in Log or ReportTo
    args,             \* per thread, the arguments of its call
    actual,           \* per thread, the Error of its Log call
    settled,          \* per thread in Log: the reporter installed when Log
                      \* started, if no ReportTo ran since; else Unsettled
    reported,         \* the Report invocations so far, in order
    calls,            \* the number of operations the callers have started
    limit             \* the number of operations the callers start

\* The config fetcher (package config).
VARIABLES
    cfg,                  \* the current *Config
    user,                 \* what the fetcher's UserConfig answers
    lastCloudConfigETag,  \* the fetcher's map from URL to ETag
    mutate,               \* the mutator pollForConfig returned last
    lastPoll,             \* the last pollForConfig call: arguments and outcome
    polls                 \* the number of pollForConfig calls so far

\* The settings of package app.
VARIABLES
    objs,        \* the Settings values allocated so far
    settings,    \* the package variable settings: an index of objs, 0 for nil
    once,        \* the package variable once: "new", "running" or "done"
    service,     \* the package variable service, and the calls of ui.Register
    readLoops,   \* the read goroutines started so far
    rwmutex,     \* per Settings value, who holds its RWMutex
    inCh,        \* the messages in service.In
    outCh,       \* the messages in service.Out
    disk,        \* the contents of settings.yaml
    spc,         \* per goroutine, where it is
    sargs,       \* per goroutine, the arguments of its call
    sOps,        \* the number of operations started so far
    lastSave     \* the last save that returned: its Settings and its outcome

\* The analytics session (package analytics).
VARIABLES
    addr,        \* the atomic.Value addr of start
    userAgent,   \* the package variable userAgent, an eventual value
    hits,        \* the calls of transport so far, in order
    alog,        \* the calls of elog.Log so far, in order
    apc,         \* per goroutine, where it is
    aargs        \* per goroutine, its local variables

errlogVars == <<collectors, sysHeap, proxyHeap, uaHeap, localeHeap, currentReporter,
                visible, pc, args, actual, settled, reported, calls, limit>>
fetcherVars == <<cfg, user, lastCloudConfigETag, mutate, lastPoll, polls>>
\* What the operations of package errors leave alone, and those of the fetcher.
settingsVars == <<objs, settings, once, service, readLoops, rwmutex, inCh, outCh, disk,
                  spc, sargs, sOps, lastSave>>
analyticsVars == <<addr, userAgent, hits, alog, apc, aargs>>
notErrlog == <<fetcherVars, settingsVars, analyticsVars>>
notFetcher == <<errlogVars, settingsVars, analyticsVars>>
notSettings == <<errlogVars, fetcherVars, analyticsVars>>
notAnalytics == <<errlogVars, fetcherVars, settingsVars>>

vars == <<errlogVars, fetcherVars, settingsVars, analyticsVars>>

Unsettled == "?"
NoArgs == [op |-> "none"]
NoBlock == [absent |-> TRUE]

\* What the pointers of a record point to at this moment.
ProxyOf(e) == IF e.ProxyingInfo = NilPtr THEN NoBlock ELSE proxyHeap[e.ProxyingInfo]
UserAgentOf(e) == IF e.UserAgentInfo = NilPtr THEN NoBlock ELSE uaHeap[e.UserAgentInfo]
LocaleOf(e) == IF e.UserLocale = 0 THEN NoBlock ELSE localeHeap[e.UserLocale]
SystemInfoOf(e) == IF e.systemInfo = NilPtr THEN NoBlock ELSE sysHeap[e.systemInfo]

InitCommon ==
    /\ collectors = [n \in {} |-> NoArgs]
    /\ sysHeap = [n \in {} |-> NoBlock]
    /\ proxyHeap = [p \in ProxyPtrs |-> [ProxyType |-> "chained", ProxyAddr |-> "1.2.3.4:443"]]
    /\ uaHeap = [u \in UAPtrs |-> [UserAgent |-> "Mozilla/5.0"]]
    /\ localeHeap = <<>>
    /\ currentReporter = StdReporter
    /\ visible = [t \in Threads |-> {StdReporter}]
    /\ pc = [t \in Threads |-> "idle"]
    /\ args = [t \in Threads |-> NoArgs]
    /\ actual = [t \in Threads |-> NoError]
    /\ settled = [t \in Threads |-> Unsettled]
    /\ reported = <<>>
    /\ calls = 0

\* The fetcher before its first poll, with a config that names no cloud
\* config URL.
NoMutate == [kind |-> "none"]
NoPoll == [polled |-> FALSE]
FetcherIdle ==
    /\ cfg = [CloudConfig |-> "", FrontedCloudConfig |-> "", content |-> "local"]
    /\ user = [id |-> "", tok |-> ""]
    /\ lastCloudConfigETag = EmptyMap
    /\ mutate = NoMutate
    /\ lastPoll = NoPoll
    /\ polls = 0

(***************************************************************************)
(* The goroutines of the settings: those of the application that call      *)
(* loadSettingsFrom, the setters and the getters; the read goroutine; and  *)
(* the goroutine of the UI that calls helloFn for a new client.            *)
(***************************************************************************)
NumAppThreads == 2
AppNames == <<"app1", "app2", "app3", "app4">>
AppThreads == {AppNames[i] : i \in 1..NumAppThreads}
SettingsThreads == Enumerated(AppThreads \cup {"reader", "hello"})

NoService == [registered |-> FALSE, calls |-> <<>>]
NoSave == [saved |-> FALSE]
NoFile == [exists |-> FALSE]
Unlocked == [writer |-> "", readers |-> {}]

\* The package variables before the first loadSettingsFrom.
SettingsInit ==
    /\ objs = <<>>
    /\ settings = 0
    /\ once = "new"
    /\ service = NoService
    /\ readLoops = 0
    /\ rwmutex = <<>>
    /\ inCh = <<>>
    /\ outCh = <<>>
    /\ disk = NoFile
    /\ spc = [t \in SettingsThreads |-> IF t = "reader" THEN "notStarted" ELSE "idle"]
    /\ sargs = [t \in SettingsThreads |-> NoArgs]
    /\ sOps = 0
    /\ lastSave = NoSave

(***************************************************************************)
(* The goroutines of an analytics session: the one start launches, and the *)
(* callers of the stop function it returns.                                *)
(***************************************************************************)
NumStops == 2
StopNames == <<"stop1", "stop2", "stop3", "stop4">>
StopThreads == {StopNames[i] : i \in 1..NumStops}
AnalyticsThreads == Enumerated({"session"} \cup StopThreads)
NilAddr == "<nil>"

\* Before start is called.
AnalyticsIdle ==
    /\ addr = NilAddr
    /\ userAgent = ""
    /\ hits = <<>>
    /\ alog = <<>>
    /\ apc = [t \in AnalyticsThreads |-> "none"]
    /\ aargs = [t \in AnalyticsThreads |-> NoArgs]

Init == InitCommon /\ limit = MaxCalls /\ FetcherIdle /\ SettingsInit /\ AnalyticsIdle

(***************************************************************************)
(* NewErrorCollector(goPackage): the host probe is read once, here.        *)
(***************************************************************************)
NewErrorCollector(goPackage, version) ==
    /\ goPackage \notin DOMAIN collectors
    /\ collectors' = collectors @@
          (goPackage :> [goPackage |-> goPackage, systemInfo |-> goPackage])
    /\ sysHeap' = sysHeap @@
          (goPackage :> [OSType |-> "darwin", OSArch |-> "amd64", OSVersion |-> version])
    /\ UNCHANGED <<notErrlog, proxyHeap, uaHeap, localeHeap, currentReporter, visible, pc, args,
                   actual, settled, reported, calls, limit>>

(***************************************************************************)
(* ErrorCollector.Log, in three steps of the calling thread: the local     *)
(* part (parseError, the Error, the decorators), the load of               *)
(* currentReporter with the call of Report on what was loaded, and the     *)
(* return of Report, with which Log returns.                               *)
(***************************************************************************)
ReportToRunning == \E u \in Threads : pc[u] = "store"

\* What the locale probe answers at each decorator of the list; only the
\* answers given to a WithLocale matter.
Probes(with) ==
    {p \in [1..Len(with) -> LocaleVals] :
        \A i \in 1..Len(with) :
            with[i].f # "WithLocale" => p[i] = CHOOSE l \in LocaleVals : TRUE}

\* parseError, &Error{...} and the loop over the decorators, for a call
\* Log(err, with...) on collector c.  A panic of parseError unwinds Log:
\* nothing is reported.
LogCall(t, errs, withs) ==
    /\ pc[t] = "idle"
    /\ calls < limit
    /\ \E c \in DOMAIN collectors, err \in errs, with \in withs :
         \E probes \in Probes(with) :
            /\ calls' = calls + 1
            /\ args' = [args EXCEPT ![t] =
                  [op |-> "Log", call |-> calls + 1, c |-> c, err |-> err, with |-> with,
                   probes |-> probes]]
            /\ LET parsed == parseError(err)
               IN  IF parsed.panicked
                     THEN /\ pc' = [pc EXCEPT ![t] = "panicked"]
                          /\ UNCHANGED <<actual, localeHeap, settled>>
                     ELSE LET r == ApplyAll(with, probes,
                                            NewError(collectors[c], parsed), localeHeap)
                          IN  /\ actual' = [actual EXCEPT ![t] = r.e]
                              /\ localeHeap' = r.heap
                              /\ pc' = [pc EXCEPT ![t] = "load"]
                              /\ settled' = [settled EXCEPT ![t] =
                                    IF ReportToRunning THEN Unsettled ELSE currentReporter]
    /\ UNCHANGED <<notErrlog, collectors, sysHeap, proxyHeap, uaHeap, currentReporter, visible,
                   reported, limit>>

\* The values a load of currentReporter by thread t may observe.  The
\* variable is read and written with no synchronization, so a load observes,
\* word by word, any store it is not ordered after: the thread's own last
\* store, or any store of another thread.
Observable(t) == {[tab |-> a, data |-> b] : a \in visible[t], b \in visible[t]}

\* currentReporter.Report(actual): the load and the call.
LogLoad(t) ==
    /\ pc[t] = "load"
    /\ \E to \in Observable(t) : reported' = Append(reported,
          [call |-> args[t].call, thread |-> t, e |-> actual[t], to |-> to,
           active |-> currentReporter, settled |-> settled[t],
           c |-> args[t].c, err |-> args[t].err, with |-> args[t].with,
           probes |-> args[t].probes,
           proxy |-> ProxyOf(actual[t]), userAgent |-> UserAgentOf(actual[t]),
           locale |-> LocaleOf(actual[t]), returned |-> FALSE])
    /\ pc' = [pc EXCEPT ![t] = "inReport"]
    /\ UNCHANGED <<notErrlog, collectors, sysHeap, proxyHeap, uaHeap, localeHeap, currentReporter,
                   visible, args, actual, settled, calls, limit>>

\* Report returns, and Log with it.
ReportReturn(t) ==
    /\ pc[t] = "inReport"
    /\ pc' = [pc EXCEPT ![t] = "idle"]
    /\ reported' = [i \in DOMAIN reported |->
                      IF reported[i].call = args[t].call
                        THEN [reported[i] EXCEPT !.returned = TRUE] ELSE reported[i]]
    /\ UNCHANGED <<notErrlog, collectors, sysHeap, proxyHeap, uaHeap, localeHeap, currentReporter,
                   visible, args, actual, settled, calls, limit>>

(***************************************************************************)
(* ReportTo(r): the call, then the store to currentReporter.               *)
(***************************************************************************)
ReportToCall(t, r) ==
    /\ pc[t] = "idle"
    /\ calls < limit
    /\ calls' = calls + 1
    /\ args' = [args EXCEPT ![t] = [op |-> "ReportTo", call |-> calls + 1, r |-> r]]
    /\ pc' = [pc EXCEPT ![t] = "store"]
    /\ settled' = [u \in Threads |-> IF pc[u] = "load" THEN Unsettled ELSE settled[u]]
    /\ UNCHANGED <<notErrlog, collectors, sysHeap, proxyHeap, uaHeap, localeHeap, currentReporter,
                   visible, actual, reported, limit>>

\* currentReporter = r
ReportToStore(t) ==
    /\ pc[t] = "store"
    /\ currentReporter' = args[t].r
    /\ visible' = [u \in Threads |->
                     IF u = t THEN {args[t].r} ELSE visible[u] \cup {args[t].r}]
    /\ pc' = [pc EXCEPT ![t] = "idle"]
    /\ UNCHANGED <<notErrlog, collectors, sysHeap, proxyHeap, uaHeap, localeHeap, args, actual,
                   settled, reported, calls, limit>>

(***************************************************************************)
(* The callers keep the ProxyingInfo and UserAgentInfo values they pass to *)
(* WithProxy and WithUserAgent, and may change them.                       *)
(***************************************************************************)
SetProxyingInfo(p, v) ==
    /\ calls < limit
    /\ proxyHeap[p] # v
    /\ proxyHeap' = [proxyHeap EXCEPT ![p] = v]
    /\ calls' = calls + 1
    /\ UNCHANGED <<notErrlog, collectors, sysHeap, uaHeap, localeHeap, currentReporter, visible, pc,
                   args, actual, settled, reported, limit>>

SetUserAgentInfo(u, v) ==
    /\ calls < limit
    /\ uaHeap[u] # v
    /\ uaHeap' = [uaHeap EXCEPT ![u] = v]
    /\ calls' = calls + 1
    /\ UNCHANGED <<notErrlog, collectors, sysHeap, proxyHeap, localeHeap, currentReporter, visible, pc,
                   args, actual, settled, reported, limit>>

(***************************************************************************)
(* Spec: NumThreads threads start MaxCalls operations (Log, ReportTo, a    *)
(* change of a caller's value) concurrently, on a few error values.        *)
(* SpecParse: one thread makes one Log call, on any of Errors with any     *)
(* decorator list of Withs.                                                *)
(***************************************************************************)
LogErrors == {NilErr, EOF}
LogWiths ==
    {<<>>, <<WithOp("fetch-cloud-config"), WithProxy("p1"), WithUserAgent("u1"), WithLocale>>}
LogPackages == {"flashlight.config", "flashlight.analytics"}
LogOSVersions == {"OS X 10.11.3"}

Next ==
    \/ \E n \in LogPackages, v \in LogOSVersions : NewErrorCollector(n, v)
    \/ \E t \in Threads : LogCall(t, LogErrors, LogWiths)
    \/ \E t \in Threads : LogLoad(t)
    \/ \E t \in Threads : ReportReturn(t)
    \/ \E t \in Threads, r \in Reporters : ReportToCall(t, r)
    \/ \E t \in Threads : ReportToStore(t)
    \/ \E p \in ProxyPtrs, v \in ProxyVals : SetProxyingInfo(p, v)
    \/ \E u \in UAPtrs, v \in UAVals : SetUserAgentInfo(u, v)

Spec == Init /\ [][Next]_vars

InitParse == InitCommon /\ limit = 1 /\ FetcherIdle /\ SettingsInit /\ AnalyticsIdle

NextParse ==
    \/ \E n \in PackageNames, v \in OSVersions : NewErrorCollector(n, v)
    \/ LogCall(1, Errors, Withs)
    \/ LogLoad(1)
    \/ ReportReturn(1)

SpecParse == InitParse /\ [][NextParse]_vars

(***************************************************************************)
(* Properties.                                                             *)
(***************************************************************************)
Entries == {reported[i] : i \in DOMAIN reported}
Uses(with, f) == \E j \in DOMAIN with : with[j].f = f
\* The index of the last decorator of kind f in the list, 0 if there is none.
LastWith(with, f) ==
    IF Uses(with, f)
      THEN CHOOSE j \in DOMAIN with :
              /\ with[j].f = f
              /\ \A k \in DOMAIN with : with[k].f = f => k <= j
      ELSE 0

\* C1: once ReportTo(new) has returned, a Log call that starts afterwards
\* (no other ReportTo running from its start to its load) hands its record to
\* `new`, and no record is handed to Report on two Reporters.
C1_LaterLogsGoToNewReporter ==
    /\ \A en \in Entries : en.settled # Unsettled => en.to = Iface(en.settled)
    /\ \A i, j \in DOMAIN reported :
          reported[i].call = reported[j].call => reported[i].to = reported[j].to

\* C2: the load of currentReporter in Log and the store in ReportTo are
\* synchronized: no state has one thread at the store while another thread
\* is at the load or at the store.
C2_NoRaceOnCurrentReporter ==
    \A a, b \in Threads :
        (a # b /\ pc[a] = "store") => pc[b] \notin {"load", "store"}

\* C3: parseError never fails, so Log never panics back to its caller,
\* whatever error value it is given.
C3_LogNeverPanics == \A t \in Threads : pc[t] # "panicked"

\* C4: every record handed to a Reporter has a non-empty GoType and a
\* non-empty Desc.
C4_KindAndDescNeverEmpty == \A en \in Entries : en.e.GoType # "" /\ en.e.Desc # ""

\* C5: a Log call that has ended has invoked Report exactly once, on the
\* Reporter that was active when it loaded the reference, and Report had
\* returned before Log did; no call is reported twice.
C5_ReportExactlyOnce ==
    /\ \A t \in Threads :
          (args[t].op = "Log" /\ pc[t] \in {"idle", "panicked"}) =>
             \E i \in DOMAIN reported :
                /\ reported[i].call = args[t].call
                /\ reported[i].thread = t
                /\ reported[i].returned
    /\ \A i, j \in DOMAIN reported : reported[i].call = reported[j].call => i = j
    /\ \A en \in Entries : en.to = Iface(en.active)

\* C6: in a delivered record every field has the value written by the last
\* decorator of the call that writes it, else the classifier's value; so the
\* last WithOp overrides the classifier's Operation.
C6_DecoratorsApplyInOrder ==
    \A en \in Entries :
        LET parsed == parseError(en.err)
            iOp == LastWith(en.with, "WithOp")
            iProxy == LastWith(en.with, "WithProxy")
            iLocale == LastWith(en.with, "WithLocale")
            iUA == LastWith(en.with, "WithUserAgent")
        IN  /\ en.e.Op = IF iOp = 0 THEN parsed.op ELSE en.with[iOp].arg
            /\ en.e.ProxyingInfo = IF iProxy = 0 THEN NilPtr ELSE en.with[iProxy].arg
            /\ en.e.UserAgentInfo = IF iUA = 0 THEN NilPtr ELSE en.with[iUA].arg
            /\ en.locale = IF iLocale = 0 THEN NoBlock ELSE en.probes[iLocale]
            /\ en.e.GoType = parsed.goType
            /\ en.e.Desc = parsed.desc
            /\ en.e.Extra = parsed.extra

\* C6 witness: a record was delivered for a network error whose wrapper
\* says "read", with two WithOp decorators, and carries the second one's op.
C6_Witness ==
    \E en \in Entries :
        /\ en.err.type = "*net.OpError" /\ en.err.Op = "read"
        /\ en.with = <<WithOp("dial"), WithOp("fetch-cloud-config")>>
        /\ en.e.Op = "fetch-cloud-config"

\* C7: a record delivered by a Log call with no decorators points to the
\* collector's systemInfo, carries the collector's package name and has no
\* ProxyingInfo, UserLocale or UserAgentInfo; and a record has one of these
\* blocks only if the matching decorator was passed to its Log call.
C7_NoDecoratorsNoBlocks ==
    \A en \in Entries :
        /\ en.with = <<>> =>
              /\ en.e.systemInfo # NilPtr
              /\ en.e.systemInfo = collectors[en.c].systemInfo
              /\ SystemInfoOf(en.e).OSType # ""
              /\ en.e.GoPackage = en.c
              /\ en.e.ProxyingInfo = NilPtr
              /\ en.e.UserLocale = 0
              /\ en.e.UserAgentInfo = NilPtr
        /\ en.e.ProxyingInfo # NilPtr => Uses(en.with, "WithProxy")
        /\ en.e.UserLocale # 0 => Uses(en.with, "WithLocale")
        /\ en.e.UserAgentInfo # NilPtr => Uses(en.with, "WithUserAgent")

\* C7 witness: a Log call with no decorators, on the collector of
\* "flashlight.analytics", has delivered its record and Report has returned.
C7_Witness ==
    \E en \in Entries : en.with = <<>> /\ en.returned /\ en.e.GoPackage = "flashlight.analytics"

\* The table sentinel an error value is or wraps, "" if there is none.
RECURSIVE SentinelOf(_)
SentinelOf(err) ==
    IF Identity(err) \in DOMAIN miscErrors THEN Identity(err)
    ELSE IF err.type \in WrapperTypes THEN SentinelOf(err.Err)
    ELSE ""

\* C8 as claimed: an error that is or wraps a sentinel of miscErrors is
\* delivered with the table's Kind, whatever wraps it.
C8_SentinelKindWhateverWraps ==
    \A en \in Entries :
        SentinelOf(en.err) # "" => en.e.GoType = miscErrors[SentinelOf(en.err)]

\* C8 as amended: an error that is itself a sentinel of miscErrors is
\* delivered with the table's Kind, not with its dynamic type name; a
\* sentinel carried inside a wrapper is classified by the wrapper's rule: the
\* inner value's dynamic type name inside a *net.OpError, "os.PathError"
\* inside a path error, "url.Error" inside a URL error.
C8_SentinelKindWhenNotWrapped ==
    \A en \in Entries :
        /\ Identity(en.err) \in DOMAIN miscErrors =>
              /\ en.e.GoType = miscErrors[Identity(en.err)]
              /\ en.e.GoType # en.err.type
        /\ (en.err.type = "*net.OpError" /\ Identity(en.err.Err) \in DOMAIN miscErrors) =>
              en.e.GoType = en.err.Err.type
        /\ (en.err.type = "*os.PathError" /\ SentinelOf(en.err) # "") =>
              en.e.GoType = "os.PathError"
        /\ (en.err.type = "*url.Error" /\ SentinelOf(en.err) # "") =>
              en.e.GoType = "url.Error"

\* C8 witness: io.EOF itself was logged and delivered as "io.EOF".
C8_Witness ==
    \E en \in Entries : en.err = EOF /\ en.e.GoType = "io.EOF" /\ en.e.Desc = "EOF"

\* C9 as claimed: without a WithOp decorator the delivered Operation is one
\* of dial, read, write, close or empty.
C9_OpInNamedSet ==
    \A en \in Entries :
        ~Uses(en.with, "WithOp") => en.e.Op \in OpConsts \cup {""}

\* The operation string an error value carries: the Op of a URL error
\* (directly or inside a network wrapper), else the network wrapper's Op, the
\* path error's Op or the syscall error's syscall name, else none.
InferredOp(err) ==
    CASE err.type = "*net.OpError" ->
            IF err.Err.type = "*url.Error" THEN err.Err.Op ELSE err.Op
      [] err.type \in {"*url.Error", "*os.PathError"} -> err.Op
      [] err.type = "*os.SyscallError" -> err.Syscall
      [] OTHER -> ""

\* C9 as amended: without a WithOp decorator the delivered Operation is
\* exactly the operation string the error value carries, whatever string
\* that is ("open", "accept", "Get", "connect", ...), and empty for the
\* shapes that carry none.
C9_OpIsTheOneInferred ==
    \A en \in Entries : ~Uses(en.with, "WithOp") => en.e.Op = InferredOp(en.err)

\* C9 witness: a path error of "open" was delivered, without WithOp, with
\* Operation "open".
C9_Witness ==
    \E en \in Entries :
        /\ en.err.type = "*os.PathError" /\ en.err.Op = "open"
        /\ ~Uses(en.with, "WithOp")
        /\ en.e.Op = "open"

\* C10: a delivered record owns its ProxyingInfo, UserAgentInfo and
\* UserLocale: what they held when the record was delivered is what they
\* hold ever after, and no two records (nor a record and a caller) share one.
C10_BlocksOwnedByRecord ==
    /\ \A en \in Entries :
          /\ ProxyOf(en.e) = en.proxy
          /\ UserAgentOf(en.e) = en.userAgent
          /\ LocaleOf(en.e) = en.locale
          /\ en.e.ProxyingInfo \notin ProxyPtrs
          /\ en.e.UserAgentInfo \notin UAPtrs
    /\ \A i, j \in DOMAIN reported :
          i # j =>
             /\ reported[i].e.ProxyingInfo = reported[j].e.ProxyingInfo
                   => reported[i].e.ProxyingInfo = NilPtr
             /\ reported[i].e.UserAgentInfo = reported[j].e.UserAgentInfo
                   => reported[i].e.UserAgentInfo = NilPtr
             /\ reported[i].e.UserLocale = reported[j].e.UserLocale
                   => reported[i].e.UserLocale = 0

(***************************************************************************)
(* The shapes of the type switch over structs.                             *)
(***************************************************************************)
\* The types that share a case with another type, and the type they share
\* it with.
SameCase ==
    ("*url.EscapeError" :> "url.EscapeError")
    @@ ("*url.InvalidHostError" :> "url.InvalidHostError")
    @@ ("*textproto.ProtocolError" :> "textproto.ProtocolError")

\* The case of the switch a value is matched by, named by its first type.
Shape(err) == IF err.type \in DOMAIN SameCase THEN SameCase[err.type] ELSE err.type

\* The cases of the switch other than default.
StructShapes ==
    {"*http.ProtocolError", "url.EscapeError", "url.InvalidHostError",
     "*textproto.Error", "textproto.ProtocolError", "tls.RecordHeaderError",
     "x509.CertificateInvalidError", "x509.ConstraintViolationError",
     "x509.HostnameError", "x509.InsecureAlgorithmError", "x509.SystemRootsError",
     "x509.UnhandledCriticalExtension", "x509.UnknownAuthorityError",
     "hex.InvalidByteError", "*json.InvalidUTF8Error", "*json.InvalidUnmarshalError",
     "*json.MarshalerError", "*json.SyntaxError", "*json.UnmarshalFieldError",
     "*json.UnmarshalTypeError", "*json.UnsupportedTypeError",
     "*json.UnsupportedValueError", "*os.LinkError", "*os.PathError",
     "*os.SyscallError", "*exec.Error", "*exec.ExitError", "*strconv.NumError",
     "*time.ParseError"}

\* C11: the Kind strings of the struct switch are one-to-one with its
\* shapes: the GoType of a delivered record of one shape is the GoType
\* parseError gives to no value of another shape.
C11_ShapeKindsOneToOne ==
    \A en \in Entries :
        Shape(en.err) \in StructShapes =>
            \A other \in StructErrors :
                (/\ Shape(other) \in StructShapes
                 /\ Shape(other) # Shape(en.err)
                 /\ ~parseError(other).panicked)
                    => parseError(other).goType # en.e.GoType

\* The Kind strings of the cases of the switch of the net.Error branch.
NetKinds ==
    {"net.AddrError", "net.DNSError", "net.InvalidAddrError", "net.ParseError",
     "net.UnknownNetworkError", "syscall.Errno", "url.Error"}

\* The keys the unwrapping of a *net.OpError writes.
WrapperKeys == {"localAddr", "remoteAddr", "network"}

\* The value the switch of the net.Error branch looks at.
Unwrapped(err) == IF err.type = "*net.OpError" THEN err.Err ELSE err

\* C12: the first matching category decides alone.  A net.Error is given a
\* Kind of the network switch or the dynamic type name of the unwrapped
\* value; when the unwrapped value is a struct shape or a sentinel, the
\* struct switch and the sentinel table are not consulted: the Kind is the
\* type name and Extra has only the wrapper's keys.  A runtime.Error is given
\* "runtime.TypeAssertionError" or its type name, and no extras.  Any other
\* error is given no Kind of the network switch.  The Kind of a record is
\* the one parseError computes for its error.
C12_FirstCategoryDecides ==
    \A en \in Entries :
        LET inner == Unwrapped(en.err)
        IN  /\ IsNetError(en.err) =>
                  /\ en.e.GoType \in NetKinds \cup {inner.type}
                  /\ (Shape(inner) \in StructShapes \/ Identity(inner) \in DOMAIN miscErrors) =>
                        /\ en.e.GoType = inner.type
                        /\ DOMAIN en.e.Extra \subseteq WrapperKeys
            /\ IsRuntimeError(en.err) =>
                  /\ en.e.GoType \in {"runtime.TypeAssertionError", en.err.type}
                  /\ en.e.Extra = EmptyMap
            /\ (~IsNetError(en.err) /\ ~IsRuntimeError(en.err)) =>
                  en.e.GoType \notin NetKinds
            /\ en.e.GoType = parseError(en.err).goType

\* C12 witness: a path error inside a network wrapper was delivered under
\* the type name of the path error.
C12_Witness ==
    \E en \in Entries :
          /\ en.err.type = "*net.OpError"
          /\ en.err.Err.type = "*os.PathError"
          /\ en.e.GoType = "*os.PathError"
          /\ en.returned

\* C13: for a delivered *net.OpError, Operation (without WithOp) is the
\* wrapper's Op, or the Op of the URL error inside it; Extra["network"] is the
\* wrapper's Net; Extra["localAddr"] and Extra["remoteAddr"] are there exactly
\* when Source and Addr are not nil, and hold their text; and the inner error
\* is classified by the network switch: a DNS error inside gives
\* "net.DNSError" with Extra["domain"].
C13_WrapperThenInner ==
    \A en \in Entries :
        en.err.type = "*net.OpError" =>
            LET w == en.err
                inner == en.err.Err
                extra == en.e.Extra
            IN  /\ ~Uses(en.with, "WithOp") =>
                      en.e.Op = IF inner.type = "*url.Error" THEN inner.Op ELSE w.Op
                /\ "network" \in DOMAIN extra /\ extra["network"] = w.Net
                /\ ("localAddr" \in DOMAIN extra) <=> (w.Source # NoAddr)
                /\ w.Source # NoAddr => extra["localAddr"] = w.Source
                /\ ("remoteAddr" \in DOMAIN extra) <=> (w.Addr # NoAddr)
                /\ w.Addr # NoAddr => extra["remoteAddr"] = w.Addr
                /\ inner.type = "*net.DNSError" =>
                      /\ en.e.GoType = "net.DNSError"
                      /\ en.e.Desc = inner.Err
                      /\ "domain" \in DOMAIN extra /\ extra["domain"] = inner.Name
                /\ inner.type = "*net.AddrError" =>
                      /\ en.e.GoType = "net.AddrError"
                      /\ "addr" \in DOMAIN extra /\ extra["addr"] = inner.Addr
                /\ inner.type = "*url.Error" => en.e.GoType = "url.Error"

\* C13 witness: "no such host" inside a dial wrapper with no source address
\* was delivered as "net.DNSError", Operation "dial", with the domain and
\* the remote address and without a local address.
C13_Witness ==
    \E en \in Entries :
        /\ en.err = OpError("dial", "tcp", NoAddr, "1.2.3.4:80",
                            DNSError("no such host", "example.com", ""))
        /\ en.with = <<>>
        /\ en.e.Op = "dial" /\ en.e.GoType = "net.DNSError" /\ en.e.Desc = "no such host"
        /\ DOMAIN en.e.Extra = {"remoteAddr", "network", "domain"}
        /\ en.returned

\* C14: a delivered path, link or syscall error has (without WithOp) the
\* Operation the error names, its Op or its Syscall, and the message of the
\* underlying error as Desc; a path error has GoType "os.PathError".
C14_OsErrorsOpAndDesc ==
    \A en \in Entries :
        /\ en.err.type = "*os.PathError" =>
              /\ en.e.GoType = "os.PathError"
              /\ ~Uses(en.with, "WithOp") => en.e.Op = en.err.Op
              /\ en.e.Desc = ErrorOf(en.err.Err)
        /\ en.err.type = "*os.SyscallError" =>
              /\ ~Uses(en.with, "WithOp") => en.e.Op = en.err.Syscall
              /\ en.e.Desc = ErrorOf(en.err.Err)
        /\ en.err.type = "*os.LinkError" =>
              /\ ~Uses(en.with, "WithOp") => en.e.Op = en.err.Op
              /\ en.e.Desc = ErrorOf(en.err.Err)

\* An error value that is matched by no case of the two interface branches
\* and of the struct switch, and is not a key of miscErrors.
NoShapeNoSentinel(err) ==
    /\ err # NilErr
    /\ ~IsNetError(err) /\ ~IsRuntimeError(err)
    /\ Shape(err) \notin StructShapes
    /\ Identity(err) \notin DOMAIN miscErrors

\* The Extra keys each case writes.
CaseKeys(err) ==
    CASE err.type = "*net.AddrError" -> {"addr"}
      [] err.type = "*net.DNSError" -> {"domain", "dnsServer"}
      [] err.type = "*net.ParseError" -> {"textToParse"}
      [] err.type = "tls.RecordHeaderError" -> {"header"}
      [] err.type = "x509.HostnameError" -> {"host"}
      [] err.type = "*exec.ExitError" -> {"stderr"}
      [] err.type = "*strconv.NumError" -> {"function"}
      [] OTHER -> {}
ShapeKeys(err) ==
    IF err.type = "*net.OpError" THEN WrapperKeys \cup CaseKeys(err.Err) ELSE CaseKeys(err)

\* C15: parseError returns for every input; an error matching no shape and
\* no sentinel is delivered with its dynamic type name as GoType, its
\* Error() as Desc, no Operation and an empty Extra; and the Extra of every
\* delivered record has only the keys of the case that matched.
C15_FallbackAndExtraKeys ==
    /\ \A t \in Threads : args[t].op = "Log" => pc[t] # "panicked"
    /\ \A en \in Entries :
          /\ NoShapeNoSentinel(en.err) =>
                /\ en.e.GoType = en.err.type
                /\ en.e.Desc = ErrorOf(en.err)
                /\ ~Uses(en.with, "WithOp") => en.e.Op = ""
                /\ en.e.Extra = EmptyMap
          /\ DOMAIN en.e.Extra \subseteq ShapeKeys(en.err)

\* C16: a collector, once made, keeps its goPackage, its systemInfo pointer
\* and what the pointer points to, whatever Log calls run; and every record
\* delivered carries the goPackage and the systemInfo pointer of the
\* collector it was logged on.
C16_CollectorNeverChanges ==
    /\ [][\A c \in DOMAIN collectors :
             /\ c \in DOMAIN collectors'
             /\ collectors'[c] = collectors[c]
             /\ sysHeap'[collectors[c].systemInfo] = sysHeap[collectors[c].systemInfo]]_vars
    /\ [](\A en \in Entries :
             /\ en.e.GoPackage = collectors[en.c].goPackage
             /\ en.e.systemInfo = collectors[en.c].systemInfo
             /\ en.e.systemInfo # NilPtr)

\* C16 witness: two collectors have each delivered a record, one of them
\* through a Log call with the four decorators, and the two records point
\* to different systemInfo values.
C16_Witness ==
    \E a, b \in Entries :
        /\ a.c # b.c /\ a.returned /\ b.returned
        /\ Len(a.with) = 4
        /\ a.e.systemInfo # b.e.systemInfo
        /\ a.e.GoPackage = "flashlight.config" /\ b.e.GoPackage = "flashlight.analytics"

(***************************************************************************)
(* The cloud-config fetcher of package config: fetchCloudConfig and        *)
(* pollForConfig.  The HTTP exchange is the environment: httpFetcher.Do    *)
(* fails or answers with any status, ETag header and body.                 *)
(***************************************************************************)
MaxPolls == 3

etag == "X-Lantern-Etag"
ifNoneMatch == "X-Lantern-If-None-Match"
userIDHeader == "X-Lantern-User-Id"
tokenHeader == "X-Lantern-Pro-Token"
chainedCloudConfigURL == "http://config.getiantem.org/cloud.yaml.gz"
frontedCloudConfigURL == "http://d2wi0vwulmtn99.cloudfront.net/cloud.yaml.gz"
\* In seconds.
CloudConfigPollInterval == 60

\* A nil []byte.
NilBytes == [nil |-> TRUE]
Bytes(b) == [nil |-> FALSE, b |-> b]

\* m[k] of a Go map of strings: "" when k is not a key.
Get(m, k) == IF k \in DOMAIN m THEN m[k] ELSE ""

\* fmt.Errorf(...)
Errorf(msg) == [type |-> "*errors.errorString", msg |-> msg]

\* The URLs http.NewRequest cannot parse, with or without a query.
BadURLs == {"%zz"}
\* The error of http.NewRequest("GET", url, nil), NilErr when there is none.
NewRequestError(base, url) ==
    IF base \in BadURLs
      THEN URLError("parse", url, StringErr("url.EscapeError", "%zz"))
      ELSE NilErr

\* What uuid.New() answers.
UUIDs == {"6ba7b810"}

\* The request of fetchCloudConfig with If-None-Match set whatever is stored.
NewRequestAlwaysIfNoneMatch(etags, c, u, cb) ==
    LET url == c.CloudConfig
        h0 == Put(EmptyMap, ifNoneMatch, Get(etags, url))
        h1 == Put(h0, "Accept", "application/x-gzip")
        h2 == Put(h1, "Cache-Control", "no-cache")
        h3 == Put(h2, "Lantern-Fronted-URL", c.FrontedCloudConfig \o cb)
        h4 == IF u.id # "" THEN Put(h3, userIDHeader, u.id) ELSE h3
        h5 == IF u.tok # "" THEN Put(h4, tokenHeader, u.tok) ELSE h4
    IN  [Method |-> "GET", URL |-> url \o cb, Header |-> h5, Close |-> TRUE]

\* The request fetchCloudConfig builds, for a URL that parses.
NewRequest(etags, c, u, cb) ==
    LET url == c.CloudConfig
        h0 == IF Get(etags, url) # ""
                THEN Put(EmptyMap, ifNoneMatch, Get(etags, url)) ELSE EmptyMap
        h1 == Put(h0, "Accept", "application/x-gzip")
        h2 == Put(h1, "Cache-Control", "no-cache")
        h3 == Put(h2, "Lantern-Fronted-URL", c.FrontedCloudConfig \o cb)
        h4 == IF u.id # "" THEN Put(h3, userIDHeader, u.id) ELSE h3
        h5 == IF u.tok # "" THEN Put(h4, tokenHeader, u.tok) ELSE h4
    IN  [Method |-> "GET", URL |-> url \o cb, Header |-> h5, Close |-> TRUE]

\* What the server may answer: the status, the ETag header ("" when absent)
\* and the body, which is the gzip of a config, the start of one, or no gzip.
StatusText ==
    (200 :> "200 OK") @@ (304 :> "304 Not Modified") @@ (500 :> "500 Internal Server Error")
StatusCodes == (200 :> "200") @@ (304 :> "304") @@ (500 :> "500")
Bodies ==
    {[gzip |-> TRUE, complete |-> TRUE, yaml |-> "cloud"],
     [gzip |-> TRUE, complete |-> FALSE, yaml |-> "clo"],
     [gzip |-> FALSE, complete |-> TRUE, yaml |-> "<html>"]}
ServerETags == {"", "v1", "v2"}
NoBody == [gzip |-> FALSE, complete |-> TRUE, yaml |-> ""]
Responses ==
    {[StatusCode |-> st, Header |-> IF e = "" THEN EmptyMap ELSE Put(EmptyMap, etag, e),
      Body |-> b] : st \in DOMAIN StatusText, e \in ServerETags, b \in Bodies \cup {NoBody}}

\* What httpFetcher.Do and httputil.DumpResponse may do.
ConnRefused ==
    OpError("dial", "tcp", NoAddr, "1.2.3.4:80", Errno("connection refused"))
DumpErrors == {NilErr, Sentinel("", "http: ContentLength with Body length 0")}
\* A body comes with a 200 only.
DoOutcomes ==
    {[err |-> ConnRefused]}
    \cup {[err |-> NilErr, resp |-> r, dumperr |-> d] :
             r \in {x \in Responses : x.StatusCode = 200 <=> x.Body # NoBody},
             d \in DumpErrors}

\* string(dump) of httputil.DumpResponse(resp, false).
DumpResponse(resp) == "HTTP/1.1 " \o StatusText[resp.StatusCode]

\* gzip.NewReader(resp.Body) and ioutil.ReadAll(gzReader).
GzipHeaderError == Sentinel("gzip.ErrHeader", "gzip: invalid header")
UnexpectedEOF == Sentinel("io.ErrUnexpectedEOF", "unexpected EOF")
ReadAll(body) ==
    [bytes |-> Bytes(body.yaml), err |-> IF body.complete THEN NilErr ELSE UnexpectedEOF]

\* A call elog.Log(err, errlog.WithOp(op)).
ElogCall(err, op) == [err |-> err, with |-> <<WithOp(op)>>]

Fetched(bytes, err, etags, sent, logged) ==
    [bytes |-> bytes, err |-> err, etags |-> etags, sent |-> sent, logged |-> logged]

\* fetchCloudConfig from the response on.
HandleResponse(etags, url, req, resp, dumperr) ==
    LET logged == IF dumperr # NilErr THEN <<ElogCall(dumperr, "dump-response")>> ELSE <<>>
    IN  IF resp.StatusCode = 304
          THEN Fetched(NilBytes, NilErr, etags, <<req>>, logged)
        ELSE IF resp.StatusCode # 200
          THEN Fetched(NilBytes,
                       IF dumperr # NilErr
                         THEN Errorf("Bad config response code: "
                                     \o StatusCodes[resp.StatusCode])
                         ELSE Errorf("Bad config resp:\n" \o DumpResponse(resp)),
                       etags, <<req>>, logged)
        ELSE LET stored == Put(etags, url, Get(resp.Header, etag))
             IN  IF ~resp.Body.gzip
                   THEN Fetched(NilBytes,
                                Errorf("Unable to open gzip reader: "
                                       \o ErrorOf(GzipHeaderError)),
                                stored, <<req>>, logged)
                   ELSE Fetched(ReadAll(resp.Body).bytes, ReadAll(resp.Body).err,
                                stored, <<req>>, logged)

fetchCloudConfig(etags, c, u, cb, out) ==
    LET url == c.CloudConfig
        nocache == url \o cb
    IN  IF NewRequestError(url, nocache) # NilErr
          THEN Fetched(NilBytes,
                       Errorf("Unable to construct request for cloud config at "
                              \o nocache \o ": " \o ErrorOf(NewRequestError(url, nocache))),
                       etags, <<>>, <<>>)
        ELSE LET req == NewRequest(etags, c, u, cb)
             IN  IF out.err # NilErr
                   THEN Fetched(NilBytes,
                                Errorf("Unable to fetch cloud config at " \o url \o ": "
                                       \o ErrorOf(out.err)),
                                etags, <<req>>, <<>>)
                   ELSE HandleResponse(etags, url, req, out.resp, out.dumperr)

\* The mutators pollForConfig returns: the one that does nothing, and the
\* one that merges the bytes fetched into the config.
DoNothing == [kind |-> "nothing"]
Merge(bytes) == [kind |-> "merge", bytes |-> bytes]

\* What rand.Int63n(CloudConfigPollInterval) answers.
Rands == {0, CloudConfigPollInterval - 1}
cloudPollSleepTime(rand) == (CloudConfigPollInterval \div 2) + rand

\* The results of pollForConfig, with what it sent and logged on the way and
\* the ETag map it leaves.
Polled(m, waitTime, err, f, fetched) ==
    [mutate |-> m, waitTime |-> waitTime, err |-> err, etags |-> f.etags,
     sent |-> f.sent, logged |-> f.logged, bytes |-> f.bytes, fetched |-> fetched]

PollResult(etags, c, stickyConfig, u, cb, out, rand) ==
    LET waitTime == cloudPollSleepTime(rand)
        none == Fetched(NilBytes, NilErr, etags, <<>>, <<>>)
    IN  IF c.CloudConfig = "" THEN Polled(DoNothing, waitTime, NilErr, none, FALSE)
        ELSE IF stickyConfig THEN Polled(DoNothing, waitTime, NilErr, none, FALSE)
        ELSE LET f == fetchCloudConfig(etags, c, u, cb, out)
             IN  IF f.err # NilErr
                   THEN Polled(DoNothing, waitTime, f.err,
                               [f EXCEPT !.logged =
                                   Append(f.logged, ElogCall(f.err, "fetch-cloud-config"))],
                               TRUE)
                 ELSE IF f.bytes # NilBytes
                   THEN Polled(Merge(f.bytes), waitTime, NilErr, f, TRUE)
                 ELSE Polled(DoNothing, waitTime, NilErr, f, TRUE)

\* One call of pollForConfig(cfg, stickyConfig).
pollForConfig(stickyConfig, cb, out, rand) ==
    /\ polls < MaxPolls
    /\ LET r == PollResult(lastCloudConfigETag, cfg, stickyConfig, user, cb, out, rand)
       IN  /\ lastCloudConfigETag' = r.etags
           /\ mutate' = r.mutate
           /\ lastPoll' = [polled |-> TRUE, cfg |-> cfg, stickyConfig |-> stickyConfig,
                           out |-> IF r.fetched THEN out ELSE [err |-> NilErr],
                           before |-> lastCloudConfigETag, result |-> r]
    /\ polls' = polls + 1
    /\ UNCHANGED <<notFetcher, cfg, user>>

\* cfg.updateFrom(bytes)
updateFrom(c, bytes) == [c EXCEPT !.content = bytes.b]

\* The caller applies the mutator it was given to the current config.
Mutate ==
    /\ mutate # NoMutate
    /\ cfg' = IF mutate.kind = "merge" THEN updateFrom(cfg, mutate.bytes) ELSE cfg
    /\ mutate' = NoMutate
    /\ UNCHANGED <<notFetcher, user, lastCloudConfigETag, lastPoll, polls>>

CloudConfigs == {"", chainedCloudConfigURL, "%zz"}
Users == {[id |-> "", tok |-> ""], [id |-> "1234", tok |-> "t0k"]}

InitFetch ==
    /\ InitCommon /\ limit = 0
    /\ cfg \in {[CloudConfig |-> c, FrontedCloudConfig |-> frontedCloudConfigURL,
                 content |-> "local"] : c \in CloudConfigs}
    /\ user \in Users
    /\ lastCloudConfigETag = EmptyMap
    /\ mutate = NoMutate
    /\ lastPoll = NoPoll
    /\ polls = 0
    /\ SettingsInit
    /\ AnalyticsIdle

NextFetch ==
    \/ \E stickyConfig \in BOOLEAN, cb \in UUIDs, out \in DoOutcomes, rand \in Rands :
          pollForConfig(stickyConfig, "?" \o cb, out, rand)
    \/ Mutate

SpecFetch == InitFetch /\ [][NextFetch]_vars

\* Whether the last poll got the answer 304 from the server.
NotModified ==
    /\ lastPoll.polled
    /\ lastPoll.result.sent # <<>>
    /\ lastPoll.out.err = NilErr
    /\ lastPoll.out.resp.StatusCode = 304

\* C17: a request carries the If-None-Match header exactly when the ETag
\* stored for the config's URL is not empty, and then carries that ETag;
\* when the answer is 304, fetchCloudConfig returns nil bytes and no error
\* and leaves the ETag map as it was, pollForConfig returns the do-nothing
\* mutator and a nil error, and that mutator leaves the config as it is.
C17_IfNoneMatchAndNotModified ==
    /\ [](lastPoll.polled =>
            LET r == lastPoll.result
                stored == Get(lastPoll.before, lastPoll.cfg.CloudConfig)
            IN  /\ \A i \in DOMAIN r.sent :
                      /\ (ifNoneMatch \in DOMAIN r.sent[i].Header) <=> (stored # "")
                      /\ stored # "" => r.sent[i].Header[ifNoneMatch] = stored
                /\ NotModified =>
                      /\ r.bytes = NilBytes
                      /\ r.err = NilErr
                      /\ r.etags = lastPoll.before
                      /\ lastCloudConfigETag = lastPoll.before
                      /\ r.mutate = DoNothing
                      /\ mutate \in {DoNothing, NoMutate})
    /\ [][mutate = DoNothing => cfg' = cfg]_vars

\* C17 witness: with the ETag "v1" stored, a poll sent If-None-Match: v1,
\* was answered 304, and the mutator it returned has been applied.
C17_Witness ==
    /\ NotModified
    /\ Get(lastPoll.before, chainedCloudConfigURL) = "v1"
    /\ lastPoll.result.sent[1].Header[ifNoneMatch] = "v1"
    /\ lastPoll.result.mutate = DoNothing
    /\ mutate = NoMutate
    /\ cfg = lastPoll.cfg

\* C18: a poll with no cloud config URL or with the sticky flag sends no
\* request and returns the do-nothing mutator and a nil error; a poll whose
\* fetch fails returns the do-nothing mutator and the error, and has passed
\* that error once to elog.Log with WithOp("fetch-cloud-config"); and in all
\* these cases the ETag map is as it was before the poll.
C18_NoFetchOrFailedFetch ==
    lastPoll.polled =>
        LET r == lastPoll.result
            reports == {i \in DOMAIN r.logged :
                           r.logged[i] = ElogCall(r.err, "fetch-cloud-config")}
        IN  /\ (lastPoll.cfg.CloudConfig = "" \/ lastPoll.stickyConfig) =>
                  /\ r.sent = <<>>
                  /\ r.mutate = DoNothing
                  /\ r.err = NilErr
                  /\ r.etags = lastPoll.before
            /\ r.err # NilErr =>
                  /\ r.mutate = DoNothing
                  /\ Cardinality(reports) = 1
                  /\ \A i \in DOMAIN r.logged :
                        r.logged[i].with = <<WithOp("fetch-cloud-config")>> => i \in reports
                  /\ r.etags = lastPoll.before

\* C21: over any sequence of polls, the ETag map changes only in a poll that
\* got a 200 response whose body was gunzipped and returned to the caller,
\* and then holds the ETag of that response for the URL; a 200 response
\* whose body does not decode leaves the map as it was.
C21_ETagFollowsDeliveredBody ==
    lastPoll.polled =>
        LET r == lastPoll.result
            delivered == /\ r.fetched
                         /\ lastPoll.out.err = NilErr
                         /\ lastPoll.out.resp.StatusCode = 200
                         /\ r.err = NilErr
                         /\ r.bytes # NilBytes
            url == lastPoll.cfg.CloudConfig
            same(u) == Get(r.etags, u) = Get(lastPoll.before, u)
        IN  /\ (\E u \in CloudConfigs : ~same(u)) => delivered
            /\ delivered =>
                  /\ Get(r.etags, url) = Get(lastPoll.out.resp.Header, etag)
                  /\ \A u \in CloudConfigs \ {url} : same(u)
            /\ lastCloudConfigETag = r.etags

(***************************************************************************)
(* The settings of package app: loadSettingsFrom with its sync.Once, the   *)
(* setters and getters under the RWMutex of Settings, save, the helloFn of *)
(* start and the read goroutine.  Package ui is the environment: Register  *)
(* succeeds or fails, the UI puts messages in service.In, takes messages   *)
(* from service.Out when it does, and calls helloFn for a new client.      *)
(***************************************************************************)
MaxSettingsOps == 3
\* The room in service.Out and in service.In.
OutCap == 1
InCap == 1

\* &Settings{AutoReport: true, AutoLaunch: true, ProxyAll: false, SystemProxy: true}
DefaultSettings ==
    [DeviceID |-> "", UserID |-> "", UserToken |-> "", AutoReport |-> TRUE,
     AutoLaunch |-> TRUE, ProxyAll |-> FALSE, SystemProxy |-> TRUE,
     Version |-> "", BuildDate |-> "", RevisionDate |-> ""]

\* The fields yaml reads and writes: Version, BuildDate and RevisionDate are
\* tagged yaml:"-".
YamlFields ==
    {"DeviceID", "UserID", "UserToken", "AutoReport", "AutoLaunch", "ProxyAll", "SystemProxy"}
Marshal(obj) == [exists |-> TRUE, valid |-> TRUE, yaml |-> [f \in YamlFields |-> obj[f]]]
Unmarshal(file, obj) ==
    [f \in DOMAIN obj |-> IF f \in YamlFields THEN file.yaml[f] ELSE obj[f]]
BadFile == [exists |-> TRUE, valid |-> FALSE]

\* loadSettingsFrom up to once.Do: the new Settings, from the file when it
\* can be read and parsed, with the three attributes of the build.
Loaded(file, readable) ==
    LET fromDisk == IF file.exists /\ readable /\ file.valid
                      THEN Unmarshal(file, DefaultSettings) ELSE DefaultSettings
    IN  [fromDisk EXCEPT !.Version = "2.1.0", !.BuildDate = "20160301",
                         !.RevisionDate = "20160229"]

LoadSettingsFrom(t, readable) ==
    /\ spc[t] = "idle"
    /\ sOps < MaxSettingsOps
    /\ sOps' = sOps + 1
    /\ objs' = Append(objs, Loaded(disk, readable))
    /\ rwmutex' = Append(rwmutex, Unlocked)
    /\ settings' = Len(objs) + 1
    /\ spc' = [spc EXCEPT ![t] = "once"]
    /\ sargs' = [sargs EXCEPT ![t] = [op |-> "loadSettingsFrom", s |-> Len(objs) + 1]]
    /\ UNCHANGED <<notSettings, once, service, readLoops, inCh, outCh, disk, lastSave>>

\* A once.Do that runs its function whenever it is called.
OnceEnterAlwaysRuns(o) == "run"

\* What once.Do does for its caller: runs the function, waits for the
\* caller that is running it, or returns at once.
OnceEnter(o) ==
    CASE o = "new" -> "run"
      [] o = "running" -> "wait"
      [] OTHER -> "skip"

OnceDo(t) ==
    /\ spc[t] = "once"
    /\ OnceEnter(once) # "wait"
    /\ IF OnceEnter(once) = "run"
         THEN /\ once' = "running"
              /\ spc' = [spc EXCEPT ![t] = "inOnce"]
         ELSE /\ once' = once
              /\ spc' = [spc EXCEPT ![t] = "idle"]
    /\ UNCHANGED <<notSettings, objs, settings, service, readLoops, rwmutex, inCh, outCh,
                   disk, sargs, sOps, lastSave>>

\* The function given to once.Do: settings.start() and, when it succeeds,
\* go settings.read(service.In, service.Out).
OnceBody(t, ok) ==
    /\ spc[t] = "inOnce"
    /\ service' = [registered |-> ok, s |-> settings,
                   calls |-> Append(service.calls, [s |-> settings, ok |-> ok])]
    /\ readLoops' = IF ok THEN readLoops + 1 ELSE readLoops
    /\ once' = "done"
    /\ spc' = [u \in SettingsThreads |->
                 IF u = t THEN "idle"
                 ELSE IF u = "reader" /\ ok /\ readLoops = 0 THEN "recv"
                 ELSE spc[u]]
    /\ sargs' = [u \in SettingsThreads |->
                   IF u = "reader" /\ ok /\ readLoops = 0
                     THEN [op |-> "read", s |-> settings, k |-> 0, panicking |-> FALSE]
                     ELSE sargs[u]]
    /\ UNCHANGED <<notSettings, objs, settings, rwmutex, inCh, outCh, disk, sOps, lastSave>>

\* The field each setter assigns.
SetterField ==
    ("SetProxyAll" :> "ProxyAll") @@ ("SetAutoReport" :> "AutoReport")
    @@ ("SetAutoLaunch" :> "AutoLaunch") @@ ("SetSystemProxy" :> "SystemProxy")
    @@ ("SetDeviceID" :> "DeviceID") @@ ("SetToken" :> "UserToken")
    @@ ("SetUserID" :> "UserID")
\* The field each getter returns.
GetterField ==
    ("GetProxyAll" :> "ProxyAll") @@ ("IsAutoReport" :> "AutoReport")
    @@ ("GetSystemProxy" :> "SystemProxy") @@ ("GetToken" :> "UserToken")
    @@ ("GetUserID" :> "UserID")

\* The checks read makes on a message.
NumChecks == 6

Holds(t, i) == rwmutex[i].writer = t
\* s.Lock() returns when nobody holds the mutex.
CanLock(i) == rwmutex[i] = Unlocked
\* s.RLock() returns when no writer holds it.
CanRLock(i) == rwmutex[i].writer = ""

\* Where a goroutine goes when its setter has returned: the read goroutine
\* to its next check, a goroutine that panicked in the setter nowhere.
AfterSetter(t) ==
    IF sargs[t].panicking THEN "panicked"
    ELSE IF t = "reader" THEN (IF sargs[t].k >= NumChecks THEN "sendOut" ELSE "check")
    ELSE "idle"

\* What a setter does besides assigning its field.
NoEffects == [pac |-> "", preferProxiedUI |-> FALSE, addrChanged |-> FALSE,
              redirect |-> FALSE]

\* settings.SetXxx(v) called by the application.
SetCall(t, setter, v) ==
    /\ spc[t] = "idle"
    /\ settings # 0
    /\ sOps < MaxSettingsOps
    /\ sOps' = sOps + 1
    /\ spc' = [spc EXCEPT ![t] = "lock"]
    /\ sargs' = [sargs EXCEPT ![t] =
          [op |-> setter, v |-> v, s |-> settings, k |-> 0, panicking |-> FALSE,
           effects |-> NoEffects]]
    /\ UNCHANGED <<notSettings, objs, settings, once, service, readLoops, rwmutex, inCh,
                   outCh, disk, lastSave>>

\* A SetSystemProxy that acts whether or not the value changes.
SystemProxyEffectsAlways(stored, enable, addrChanged) ==
    [pac |-> IF enable THEN "pacOn" ELSE "pacOff", preferProxiedUI |-> TRUE,
     addrChanged |-> addrChanged, redirect |-> ~enable /\ addrChanged]

\* SetSystemProxy after the assignment: pacOn or pacOff, ui.PreferProxiedUI
\* and the redirect, for the value stored before, the new value, and what
\* ui.PreferProxiedUI answers.
SystemProxyEffects(stored, enable, addrChanged) ==
    LET changed == enable # stored
    IN  IF changed
          THEN [pac |-> IF enable THEN "pacOn" ELSE "pacOff", preferProxiedUI |-> TRUE,
                addrChanged |-> addrChanged, redirect |-> ~enable /\ addrChanged]
          ELSE NoEffects

\* s.Lock() and the body of the setter up to a send or to its return.  Only
\* SetSystemProxy does more than assign its field.
SetLock(t, addrChanged) ==
    /\ spc[t] = "lock"
    /\ LET i == sargs[t].s
           f == SetterField[sargs[t].op]
           e == IF sargs[t].op = "SetSystemProxy"
                  THEN SystemProxyEffects(objs[i][f], sargs[t].v, addrChanged)
                  ELSE NoEffects
       IN  /\ CanLock(i)
           /\ rwmutex' = [rwmutex EXCEPT ![i].writer = t]
           /\ objs' = [objs EXCEPT ![i][f] = sargs[t].v]
           /\ sargs' = [sargs EXCEPT ![t].effects = e]
           /\ spc' = [spc EXCEPT ![t] = IF e.redirect THEN "send" ELSE "unlock"]
    /\ UNCHANGED <<notSettings, settings, once, service, readLoops, inCh, outCh, disk,
                   sOps, lastSave>>

\* service.Out <- map[string]string{"redirectTo": preferredUIAddr}, with the
\* mutex held.  When Register failed, service is nil and the send panics.
SetSend(t) ==
    /\ spc[t] = "send"
    /\ IF service.registered
         THEN /\ Len(outCh) < OutCap
              /\ outCh' = Append(outCh, [redirectTo |-> "127.0.0.1:16823"])
              /\ sargs' = sargs
         ELSE /\ outCh' = outCh
              /\ sargs' = [sargs EXCEPT ![t].panicking = TRUE]
    /\ spc' = [spc EXCEPT ![t] = "unlock"]
    /\ UNCHANGED <<notSettings, objs, settings, once, service, readLoops, rwmutex, inCh,
                   disk, sOps, lastSave>>

\* unlockAndSave: s.Unlock()
SetUnlock(t) ==
    /\ spc[t] = "unlock"
    /\ rwmutex' = [rwmutex EXCEPT ![sargs[t].s].writer = ""]
    /\ spc' = [spc EXCEPT ![t] = "saveLock"]
    /\ UNCHANGED <<notSettings, objs, settings, once, service, readLoops, inCh, outCh,
                   disk, sargs, sOps, lastSave>>

\* save: s.Lock()
SaveLock(t) ==
    /\ spc[t] = "saveLock"
    /\ CanLock(sargs[t].s)
    /\ rwmutex' = [rwmutex EXCEPT ![sargs[t].s].writer = t]
    /\ spc' = [spc EXCEPT ![t] = "saving"]
    /\ UNCHANGED <<notSettings, objs, settings, once, service, readLoops, inCh, outCh,
                   disk, sargs, sOps, lastSave>>

\* A save that writes the update of its own setter over the defaults.
SaveContentOwnUpdate(t) ==
    Marshal([DefaultSettings EXCEPT ![SetterField[sargs[t].op]] = sargs[t].v])

\* save: yaml.Marshal(s), of the Settings as it is when save holds the lock.
SaveContent(t) == Marshal(objs[sargs[t].s])

\* save: yaml.Marshal, ioutil.WriteFile, and the deferred s.Unlock().
Save(t, written) ==
    /\ spc[t] = "saving"
    /\ disk' = IF written THEN SaveContent(t) ELSE disk
    /\ lastSave' = [saved |-> TRUE, s |-> sargs[t].s, written |-> written]
    /\ rwmutex' = [rwmutex EXCEPT ![sargs[t].s].writer = ""]
    /\ spc' = [spc EXCEPT ![t] = AfterSetter(t)]
    /\ UNCHANGED <<notSettings, objs, settings, once, service, readLoops, inCh, outCh,
                   sargs, sOps>>

\* settings.GetXxx() called by the application.
GetCall(t, getter) ==
    /\ spc[t] = "idle"
    /\ settings # 0
    /\ sOps < MaxSettingsOps
    /\ sOps' = sOps + 1
    /\ spc' = [spc EXCEPT ![t] = "rlock"]
    /\ sargs' = [sargs EXCEPT ![t] = [op |-> getter, s |-> settings]]
    /\ UNCHANGED <<notSettings, objs, settings, once, service, readLoops, rwmutex, inCh,
                   outCh, disk, lastSave>>

\* s.RLock()
GetRLock(t) ==
    /\ spc[t] = "rlock"
    /\ CanRLock(sargs[t].s)
    /\ rwmutex' = [rwmutex EXCEPT ![sargs[t].s].readers = @ \cup {t}]
    /\ spc' = [spc EXCEPT ![t] = "rlocked"]
    /\ UNCHANGED <<notSettings, objs, settings, once, service, readLoops, inCh, outCh,
                   disk, sargs, sOps, lastSave>>

\* return s.Xxx and the deferred s.RUnlock()
GetReturn(t) ==
    /\ spc[t] = "rlocked"
    /\ rwmutex' = [rwmutex EXCEPT ![sargs[t].s].readers = @ \ {t}]
    /\ spc' = [spc EXCEPT ![t] = "idle"]
    /\ sargs' = [sargs EXCEPT ![t] =
          [op |-> sargs[t].op, s |-> sargs[t].s,
           ret |-> objs[sargs[t].s][GetterField[sargs[t].op]]]]
    /\ UNCHANGED <<notSettings, objs, settings, once, service, readLoops, inCh, outCh,
                   disk, sOps, lastSave>>

\* The UI calls helloFn for a client that connects; helloFn closes over the
\* Settings that start was called on.
ClientConnect ==
    /\ service.registered
    /\ spc["hello"] = "idle"
    /\ sOps < MaxSettingsOps
    /\ sOps' = sOps + 1
    /\ spc' = [spc EXCEPT !["hello"] = "helloLock"]
    /\ sargs' = [sargs EXCEPT !["hello"] = [op |-> "helloFn", s |-> service.s]]
    /\ UNCHANGED <<notSettings, objs, settings, once, service, readLoops, rwmutex, inCh,
                   outCh, disk, lastSave>>

\* helloFn: s.Lock()
HelloLock ==
    /\ spc["hello"] = "helloLock"
    /\ CanLock(sargs["hello"].s)
    /\ rwmutex' = [rwmutex EXCEPT ![sargs["hello"].s].writer = "hello"]
    /\ spc' = [spc EXCEPT !["hello"] = "helloLocked"]
    /\ UNCHANGED <<notSettings, objs, settings, once, service, readLoops, inCh, outCh,
                   disk, sargs, sOps, lastSave>>

\* helloFn: write(s) and the deferred s.Unlock()
HelloWrite ==
    /\ spc["hello"] = "helloLocked"
    /\ rwmutex' = [rwmutex EXCEPT ![sargs["hello"].s].writer = ""]
    /\ spc' = [spc EXCEPT !["hello"] = "idle"]
    /\ UNCHANGED <<notSettings, objs, settings, once, service, readLoops, inCh, outCh,
                   disk, sargs, sOps, lastSave>>

\* The values of a message from the UI, with their dynamic type.
BoolV(b) == [type |-> "bool", b |-> b, str |-> ""]
StringV(str) == [type |-> "string", b |-> FALSE, str |-> str]
Messages ==
    { [decoded |-> FALSE, data |-> <<>>],
      [decoded |-> TRUE, data |-> ("systemProxy" :> BoolV(FALSE))],
      [decoded |-> TRUE, data |-> ("systemProxy" :> BoolV(TRUE)) @@ ("userID" :> StringV("u7"))],
      [decoded |-> TRUE, data |-> ("proxyAll" :> StringV("yes"))] }

\* The UI sends a message on service.In.
UISend(m) ==
    /\ service.registered
    /\ Len(inCh) < InCap
    /\ sOps < MaxSettingsOps
    /\ sOps' = sOps + 1
    /\ inCh' = Append(inCh, m)
    /\ UNCHANGED <<notSettings, objs, settings, once, service, readLoops, rwmutex, outCh,
                   disk, spc, sargs, lastSave>>

\* The UI takes a message from service.Out.
UIReceive ==
    /\ outCh # <<>>
    /\ outCh' = Tail(outCh)
    /\ UNCHANGED <<notSettings, objs, settings, once, service, readLoops, rwmutex, inCh,
                   disk, spc, sargs, sOps, lastSave>>

\* The checks of read, in their order: the key, its type and its setter.
Checks ==
    << [name |-> "autoReport", type |-> "bool", f |-> "SetAutoReport"],
       [name |-> "proxyAll", type |-> "bool", f |-> "SetProxyAll"],
       [name |-> "autoLaunch", type |-> "bool", f |-> "SetAutoLaunch"],
       [name |-> "systemProxy", type |-> "bool", f |-> "SetSystemProxy"],
       [name |-> "userID", type |-> "string", f |-> "SetUserID"],
       [name |-> "token", type |-> "string", f |-> "SetToken"] >>

\* read: for message := range in, and the type assertion on the message.
ReadReceive ==
    /\ spc["reader"] = "recv"
    /\ inCh # <<>>
    /\ inCh' = Tail(inCh)
    /\ spc' = [spc EXCEPT !["reader"] = IF Head(inCh).decoded THEN "check" ELSE "recv"]
    /\ sargs' = [sargs EXCEPT !["reader"] =
          [op |-> "read", s |-> sargs["reader"].s, k |-> 0, panicking |-> FALSE,
           data |-> Head(inCh).data]]
    /\ UNCHANGED <<notSettings, objs, settings, once, service, readLoops, rwmutex, outCh,
                   disk, sOps, lastSave>>

\* checkBool and checkString on a value: the setter is called when the key
\* holds a value of the type, and the error is reported otherwise.
CheckPasses(data, k) ==
    Checks[k].name \in DOMAIN data /\ data[Checks[k].name].type = Checks[k].type
\* The first check after the k-th that calls its setter, NumChecks + 1 when
\* there is none.
NextPassing(data, k) ==
    IF \E j \in (k + 1)..NumChecks : CheckPasses(data, j)
      THEN CHOOSE j \in (k + 1)..NumChecks :
             /\ CheckPasses(data, j)
             /\ \A i \in (k + 1)..(j - 1) : ~CheckPasses(data, i)
      ELSE NumChecks + 1

\* read: the checks that only report, up to the next call of a setter or to
\* the end of the six.
ReadCheck ==
    /\ spc["reader"] = "check"
    /\ LET a == sargs["reader"]
           j == NextPassing(a.data, a.k)
       IN  IF j <= NumChecks
             THEN /\ sargs' = [sargs EXCEPT !["reader"] =
                        [op |-> Checks[j].f, s |-> a.s, k |-> j, panicking |-> FALSE,
                         data |-> a.data, effects |-> NoEffects,
                         v |-> IF Checks[j].type = "bool" THEN a.data[Checks[j].name].b
                               ELSE a.data[Checks[j].name].str]]
                  /\ spc' = [spc EXCEPT !["reader"] = "lock"]
             ELSE /\ sargs' = [sargs EXCEPT !["reader"] = [a EXCEPT !.k = NumChecks]]
                  /\ spc' = [spc EXCEPT !["reader"] = "sendOut"]
    /\ UNCHANGED <<notSettings, objs, settings, once, service, readLoops, rwmutex, inCh,
                   outCh, disk, sOps, lastSave>>

\* read: out <- s
ReadSendOut ==
    /\ spc["reader"] = "sendOut"
    /\ Len(outCh) < OutCap
    /\ outCh' = Append(outCh, [settings |-> sargs["reader"].s])
    /\ spc' = [spc EXCEPT !["reader"] = "recv"]
    /\ UNCHANGED <<notSettings, objs, settings, once, service, readLoops, rwmutex, inCh,
                   disk, sargs, sOps, lastSave>>

\* The calls the application makes.
AppSetters ==
    {<<"SetSystemProxy", FALSE>>, <<"SetSystemProxy", TRUE>>, <<"SetProxyAll", TRUE>>}
AppGetters == {"GetSystemProxy", "GetProxyAll"}

InitSettings ==
    /\ InitCommon
    /\ limit = 0
    /\ FetcherIdle
    /\ SettingsInit
    /\ AnalyticsIdle

NextSettings ==
    \/ \E t \in AppThreads, readable \in BOOLEAN : LoadSettingsFrom(t, readable)
    \/ \E t \in AppThreads : OnceDo(t)
    \/ \E t \in AppThreads, ok \in BOOLEAN : OnceBody(t, ok)
    \/ \E t \in AppThreads, c \in AppSetters : SetCall(t, c[1], c[2])
    \/ \E t \in AppThreads \cup {"reader"}, addrChanged \in BOOLEAN : SetLock(t, addrChanged)
    \/ \E t \in AppThreads \cup {"reader"} : SetSend(t)
    \/ \E t \in AppThreads \cup {"reader"} : SetUnlock(t)
    \/ \E t \in AppThreads \cup {"reader"} : SaveLock(t)
    \/ \E t \in AppThreads \cup {"reader"}, written \in BOOLEAN : Save(t, written)
    \/ \E t \in AppThreads, g \in AppGetters : GetCall(t, g)
    \/ \E t \in AppThreads : GetRLock(t)
    \/ \E t \in AppThreads : GetReturn(t)
    \/ ClientConnect
    \/ HelloLock
    \/ HelloWrite
    \/ \E m \in Messages : UISend(m)
    \/ UIReceive
    \/ ReadReceive
    \/ ReadCheck
    \/ ReadSendOut

SpecSettings == InitSettings /\ [][NextSettings]_vars

(***************************************************************************)
(* C19: however many loadSettingsFrom calls are made, and however they     *)
(* interleave, ui.Register is called at most once and at most one read     *)
(* goroutine is started; a read goroutine exists only when the             *)
(* registration succeeded; and a registration that failed is not tried     *)
(* again by a later load.                                                  *)
(***************************************************************************)
C19_RegisterAndReadOnce ==
    /\ Len(service.calls) <= 1
    /\ readLoops <= 1
    /\ readLoops = 1 => (Len(service.calls) = 1 /\ service.calls[1].ok /\ service.registered)
    /\ spc["reader"] # "notStarted" => readLoops = 1
    /\ (Len(service.calls) = 1 /\ ~service.calls[1].ok) =>
          (readLoops = 0 /\ ~service.registered /\ once = "done")

\* Two loads have returned, the second after the first registered the
\* service and started the read goroutine.
C19_Witness ==
    /\ Len(objs) >= 2
    /\ \A t \in AppThreads : spc[t] = "idle"
    /\ once = "done"
    /\ Len(service.calls) = 1
    /\ service.s = 1
    /\ readLoops = 1

(***************************************************************************)
(* C20: no setter waits on the send to service.Out while it holds the      *)
(* write lock of its Settings.                                             *)
(***************************************************************************)
C20_NoSendHoldingLock ==
    \A t \in AppThreads \cup {"reader"} :
        ~ /\ spc[t] = "send"
          /\ Holds(t, sargs[t].s)
          /\ service.registered
          /\ Len(outCh) >= OutCap

(***************************************************************************)
(* The analytics session of package analytics: start launches a goroutine  *)
(* that looks the IP up and sends the start hit, and returns the stop      *)
(* function, which sends the end hit when an IP was stored.  Package       *)
(* logging and the proxy are the environment: a user agent is seen when it *)
(* is, and trackSession's HTTP client and request succeed or fail.         *)
(***************************************************************************)
trackingID == "UA-21815217-12"
IPs == {"", "66.69.242.177", "188.166.36.215"}
Agents == {"Mozilla/5.0", "curl/7.47"}
DeviceIDs == {"dev1"}
Versions == {"2.1.0"}
\* strconv.FormatInt(int64(maxWaitForIP/time.Second), 10)
maxWaitForIPSeconds == "2147483647"
\* What getExecutableHash returned when the package was initialised.
hash == "c0ffee"

WithField(key, value) == [f |-> "WithField", arg |-> key \o "=" \o value]

\* sessionVals: the values in the order vals.Encode() writes them, sorted by
\* key; uip only for a non-empty ip, ua only when userAgent.Get found one.
sessionVals(ip, version, clientID, sc, ua) ==
    LET all == << <<"aip", "1">>, <<"cd1", version>>, <<"cd2", hash>>, <<"cid", clientID>>,
                  <<"dp", "localhost">>, <<"ni", "1">>, <<"sc", sc>>, <<"t", "pageview">>,
                  <<"tid", trackingID>>, <<"ua", ua>>, <<"uip", ip>>, <<"v", "1">> >>
        Added(kv) == /\ kv[1] = "ua" => ua # ""
                     /\ kv[1] = "uip" => ip # ""
    IN  SelectSeq(all, Added)

Val(argv, key) ==
    IF \E i \in DOMAIN argv : argv[i][1] = key
      THEN argv[CHOOSE i \in DOMAIN argv : argv[i][1] = key][2]
      ELSE ""

\* What trackSession can come to: the request is sent, util.HTTPClient
\* fails, or httpClient.Do fails.  http.NewRequest does not fail for the
\* constant endpoint.
TrackOutcomes == {"sent", "create-http-client", "send-http-request"}
TrackError(outcome) == Errorf(outcome \o " failed")
trackSession(argv, outcome) ==
    [hit |-> [args |-> argv, outcome |-> outcome],
     logged |-> IF outcome = "sent" THEN <<>>
                ELSE <<[err |-> TrackError(outcome), with |-> <<WithOp(outcome)>>]>>]

\* start: go func() { logging.AddUserAgentListener(...) ... }
Listen ==
    /\ apc["session"] = "listen"
    /\ apc' = [apc EXCEPT !["session"] = "ipFunc"]
    /\ UNCHANGED <<notAnalytics, addr, userAgent, hits, alog, aargs>>

\* The listener is called with an agent seen on the proxy: userAgent.Set.
AgentSeen(agent) ==
    /\ apc["session"] \notin {"none", "listen"}
    /\ userAgent # agent
    /\ userAgent' = agent
    /\ UNCHANGED <<notAnalytics, addr, hits, alog, apc, aargs>>

\* ip := ipFunc(maxWaitForIP); for an empty ip the error is logged and the
\* goroutine returns; else addr.Store(ip).
LookupIP(ip) ==
    /\ apc["session"] = "ipFunc"
    /\ IF ip = ""
         THEN /\ alog' = Append(alog,
                    [err |-> Errorf("No IP found"),
                     with |-> <<WithOp("geolookup"),
                                WithField("waitSeconds", maxWaitForIPSeconds)>>])
              /\ apc' = [apc EXCEPT !["session"] = "returned"]
              /\ UNCHANGED <<addr, aargs>>
         ELSE /\ addr' = ip
              /\ aargs' = [aargs EXCEPT !["session"].ip = ip]
              /\ apc' = [apc EXCEPT !["session"] = "sessionVals"]
              /\ alog' = alog
    /\ UNCHANGED <<notAnalytics, userAgent, hits>>

\* The stop function: if addr.Load() != nil { ip := addr.Load().(string) ...
Stop(t) ==
    /\ apc[t] = "ready"
    /\ IF addr = NilAddr
         THEN /\ apc' = [apc EXCEPT ![t] = "returned"]
              /\ aargs' = aargs
         ELSE /\ apc' = [apc EXCEPT ![t] = "sessionVals"]
              /\ aargs' = [aargs EXCEPT ![t].ip = addr]
    /\ UNCHANGED <<notAnalytics, addr, userAgent, hits, alog>>

\* startSession and endSession: args := sessionVals(ip, version, clientID,
\* sc, uaWait).  userAgent.Get(uaWait) returns the agent when one is set, and
\* gives up when none was set in time.
SessionVals(t) ==
    /\ apc[t] = "sessionVals"
    /\ aargs' = [aargs EXCEPT ![t].argv =
          sessionVals(aargs[t].ip, aargs[t].version, aargs[t].deviceID, aargs[t].sc,
                      userAgent)]
    /\ apc' = [apc EXCEPT ![t] = "transport"]
    /\ UNCHANGED <<notAnalytics, addr, userAgent, hits, alog>>

\* transport(args, proxyAddrFN), with trackSession as the transport.
Transport(t, outcome) ==
    /\ apc[t] = "transport"
    /\ hits' = Append(hits, trackSession(aargs[t].argv, outcome).hit)
    /\ alog' = alog \o trackSession(aargs[t].argv, outcome).logged
    /\ apc' = [apc EXCEPT ![t] = "returned"]
    /\ UNCHANGED <<notAnalytics, addr, userAgent, aargs>>

\* start(deviceID, version, ...) has returned the stop function and has
\* launched its goroutine.
InitAnalytics ==
    /\ InitCommon
    /\ limit = 0
    /\ FetcherIdle
    /\ SettingsInit
    /\ addr = NilAddr
    /\ userAgent = ""
    /\ hits = <<>>
    /\ alog = <<>>
    /\ apc = [t \in AnalyticsThreads |-> IF t = "session" THEN "listen" ELSE "ready"]
    /\ \E d \in DeviceIDs, v \in Versions :
          aargs = [t \in AnalyticsThreads |->
                     [deviceID |-> d, version |-> v, ip |-> "", argv |-> <<>>,
                      sc |-> IF t = "session" THEN "start" ELSE "end"]]

NextAnalytics ==
    \/ Listen
    \/ \E agent \in Agents : AgentSeen(agent)
    \/ \E ip \in IPs : LookupIP(ip)
    \/ \E t \in StopThreads : Stop(t)
    \/ \E t \in AnalyticsThreads : SessionVals(t)
    \/ \E t \in AnalyticsThreads, outcome \in TrackOutcomes : Transport(t, outcome)

SpecAnalytics == InitAnalytics /\ [][NextAnalytics]_vars

IsHit(i, sc) == Val(hits[i].args, "sc") = sc
LookupFailed == apc["session"] = "returned" /\ addr = NilAddr
GeolookupLogs == {i \in DOMAIN alog : alog[i].with[1] = WithOp("geolookup")}

\* C22: in every interleaving of the goroutine of start with calls of the
\* stop function, an end hit is sent only when an IP was obtained, and only
\* after the start hit of the session was sent; when the lookup returns the
\* empty IP no hit is ever sent and the failure is logged once, with the
\* operation "geolookup".
C22_EndOnlyAfterStart ==
    /\ \A i \in DOMAIN hits :
          IsHit(i, "end") =>
              /\ addr # NilAddr
              /\ Val(hits[i].args, "uip") = addr
              /\ \E j \in 1..(i - 1) : IsHit(j, "start")
    /\ LookupFailed =>
          /\ hits = <<>>
          /\ Cardinality(GeolookupLogs) = 1
          /\ Len(alog) = 1
          /\ alog[1].err = Errorf("No IP found")
    /\ ~LookupFailed => GeolookupLogs = {}

InSetter(t) == spc[t] \in {"lock", "send", "unlock", "saveLock", "saving"}
InGetter(t) == spc[t] \in {"rlock", "rlocked"}
SettersReturned == \A t \in SettingsThreads : ~InSetter(t)

(***************************************************************************)
(* C23: every setter saves after its update and returns only from save;    *)
(* save serializes the Settings while it holds the lock; so in every       *)
(* interleaving, once all setters have returned and the last save wrote    *)
(* the file, the file holds the Settings in memory; and a getter changes   *)
(* no field and no file.                                                   *)
(***************************************************************************)
C23_SavedAfterEverySetter ==
    /\ [](\A t \in SettingsThreads : spc[t] = "saving" => Holds(t, sargs[t].s))
    /\ []((SettersReturned /\ lastSave.saved /\ lastSave.written) =>
             disk = Marshal(objs[lastSave.s]))
    /\ [][\A t \in SettingsThreads :
            /\ (InSetter(t) /\ ~InSetter(t)') =>
                  /\ spc[t] = "saving"
                  /\ lastSave'.saved
                  /\ lastSave'.s = sargs[t].s
                  /\ lastSave'.written => disk' = Marshal(objs[sargs[t].s])
                  /\ ~lastSave'.written => disk' = disk
            /\ (spc[t] = "lock" /\ spc'[t] # "lock") =>
                  objs' = [objs EXCEPT ![sargs[t].s][SetterField[sargs[t].op]] = sargs[t].v]
            /\ (InGetter(t) /\ spc'[t] # spc[t]) =>
                  /\ objs' = objs
                  /\ disk' = disk
                  /\ lastSave' = lastSave]_vars

\* Both goroutines of the application have returned from setters of
\* different fields of the same Settings, and the file holds both updates.
C23_Witness ==
    /\ SettersReturned
    /\ lastSave.saved /\ lastSave.written
    /\ \A t \in AppThreads : spc[t] = "idle" /\ sargs[t].op \in DOMAIN SetterField
    /\ \E t, u \in AppThreads :
          /\ sargs[t].op # sargs[u].op
          /\ sargs[t].s = sargs[u].s
          /\ lastSave.s = sargs[t].s
    /\ disk.yaml.SystemProxy = FALSE
    /\ disk.yaml.ProxyAll = TRUE
    /\ disk = Marshal(objs[settings])

(***************************************************************************)
(* C24: SetSystemProxy(enable) calls pacOn or pacOff and                   *)
(* ui.PreferProxiedUI only when enable differs from the stored             *)
(* SystemProxy; with the stored value it changes no field and makes none   *)
(* of these calls, and goes on to save; and it sends the redirect to the   *)
(* UI only when it turns proxying off and the preferred address changed.   *)
(***************************************************************************)
C24_SystemProxyOnlyOnChange ==
    [][\A t \in SettingsThreads :
         /\ (spc[t] = "lock" /\ spc'[t] # "lock" /\ sargs[t].op = "SetSystemProxy") =>
               LET i == sargs[t].s
                   stored == objs[i].SystemProxy
                   enable == sargs[t].v
                   e == sargs'[t].effects
               IN  /\ objs' = [objs EXCEPT ![i].SystemProxy = enable]
                   /\ enable = stored =>
                         /\ objs' = objs
                         /\ e = NoEffects
                         /\ spc'[t] = "unlock"
                   /\ enable # stored =>
                         /\ e.pac = IF enable THEN "pacOn" ELSE "pacOff"
                         /\ e.preferProxiedUI
                   /\ e.redirect <=> (enable # stored /\ ~enable /\ e.addrChanged)
                   /\ spc'[t] = "send" <=> e.redirect
         /\ (spc[t] = "send" /\ spc'[t] # "send") =>
               /\ sargs[t].op = "SetSystemProxy"
               /\ sargs[t].effects.redirect
               /\ ~sargs[t].v
       ]_vars
    /\ [][(outCh' # outCh /\ Len(outCh') > 0 /\ Len(outCh') > Len(outCh)
           /\ "redirectTo" \in DOMAIN outCh'[Len(outCh')]) =>
             \E t \in SettingsThreads : spc[t] = "send" /\ spc'[t] = "unlock"]_vars

\* One goroutine has turned the system proxy off and sent the redirect, and
\* another has then called SetSystemProxy(false) again and has saved without
\* any PAC or UI call.
C24_Witness ==
    \E t, u \in AppThreads :
        /\ t # u
        /\ spc[t] = "idle" /\ spc[u] = "idle"
        /\ sargs[t].op = "SetSystemProxy" /\ sargs[u].op = "SetSystemProxy"
        /\ ~sargs[t].v /\ ~sargs[u].v
        /\ sargs[t].effects.redirect /\ sargs[t].effects.pac = "pacOff"
        /\ sargs[u].effects = NoEffects
        /\ lastSave.saved
        /\ ~objs[sargs[u].s].SystemProxy

====
